---- MODULE Spec2Model ----
(***************************************************************************)
(* Model of the playlist preview handler of DJ-JPG                         *)
(* (src/pages/api/playlist-preview.ts): query planning, candidate          *)
(* aggregation against the Spotify catalog, popularity filtering, school   *)
(* (landmark) prioritisation and the final diversity / backfill passes.    *)
(*                                                                         *)
(* Text is modelled at word granularity: a string is a sequence of tokens, *)
(* the token "," stands for the separator ", ", toLowerCase is a table on  *)
(* the tokens and String.includes is contiguous sub-sequence containment.  *)
(***************************************************************************)
EXTENDS Integers, Sequences, FiniteSets, TLC

(***************************************************************************)
(* Bounds of the model (not program constants).                            *)
(***************************************************************************)
\* Math.random is a generator whose seed is drawn from 0..MaxSeed.
MaxSeed == 1
\* At most MaxFaults individual catalog calls fail in one request
\* (a catalog that is down fails every call, independently of this bound).
MaxFaults == 1

(***************************************************************************)
(* Program constants.                                                      *)
(***************************************************************************)
maxTracksPerArtist == 3
targetTrackCount == 20

(***************************************************************************)
(* Text helpers.                                                           *)
(***************************************************************************)
LowerMap ==
  [t \in {"Carolina", "Tar", "Heel", "UNC", "Chapel", "Hill", "Duke", "Blue",
          "Devil", "Devils", "Harvard", "Crimson", "Yale", "Bulldog",
          "Stanford", "Cardinal", "MIT", "Massachusetts", "Institute",
          "Technology", "Princeton", "Tiger", "Columbia", "Lion", "Penn",
          "Quaker", "University", "Happy", "HAPPY", "Calm", "Dance", "Song",
          "Fight", "Lofi", "Girl", "Kupla", "Nujabes", "Bonobo", "Tycho",
          "Festival", "Earth", "Wind", "Fire"} |->
     CASE t = "Carolina" -> "carolina" [] t = "Tar" -> "tar"
       [] t = "Heel" -> "heel" [] t = "UNC" -> "unc"
       [] t = "Chapel" -> "chapel" [] t = "Hill" -> "hill"
       [] t = "Duke" -> "duke" [] t = "Blue" -> "blue"
       [] t = "Devil" -> "devil" [] t = "Devils" -> "devils"
       [] t = "Harvard" -> "harvard" [] t = "Crimson" -> "crimson"
       [] t = "Yale" -> "yale" [] t = "Bulldog" -> "bulldog"
       [] t = "Stanford" -> "stanford" [] t = "Cardinal" -> "cardinal"
       [] t = "MIT" -> "mit" [] t = "Massachusetts" -> "massachusetts"
       [] t = "Institute" -> "institute" [] t = "Technology" -> "technology"
       [] t = "Princeton" -> "princeton" [] t = "Tiger" -> "tiger"
       [] t = "Columbia" -> "columbia" [] t = "Lion" -> "lion"
       [] t = "Penn" -> "penn" [] t = "Quaker" -> "quaker"
       [] t = "University" -> "university" [] t = "Happy" -> "happy"
       [] t = "HAPPY" -> "happy" [] t = "Calm" -> "calm"
       [] t = "Dance" -> "dance" [] t = "Song" -> "song"
       [] t = "Fight" -> "fight" [] t = "Lofi" -> "lofi"
       [] t = "Girl" -> "girl" [] t = "Kupla" -> "kupla"
       [] t = "Nujabes" -> "nujabes" [] t = "Bonobo" -> "bonobo"
       [] t = "Tycho" -> "tycho" [] t = "Festival" -> "festival"
       [] t = "Earth" -> "earth" [] t = "Wind" -> "wind"
       [] t = "Fire" -> "fire"]

\* String.prototype.toLowerCase on one token and on a text
Lower(t) == IF t \in DOMAIN LowerMap THEN LowerMap[t] ELSE t

toLowerCase(s) == [i \in 1..Len(s) |-> Lower(s[i])]

\* String.prototype.includes: hay.includes(needle)
includes(hay, needle) ==
  \E i \in 0..(Len(hay) - Len(needle)) :
      \A k \in 1..Len(needle) : hay[i + k] = needle[k]

\* Array.prototype.filter for a predicate on the position: the elements at the
\* positions of keep, in order
FilterIdx(s, keep) ==
  LET kept(k) == k \in keep
      At(positions) == [k \in 1..Len(positions) |-> s[positions[k]]]
  IN  At(SelectSeq([k \in 1..Len(s) |-> k], kept))

\* Array.prototype.slice(from, to) with 0-based, end-exclusive indexes
slice(s, from, to) ==
  IF from >= Len(s) \/ to <= from THEN <<>>
  ELSE SubSeq(s, from + 1, IF to > Len(s) THEN Len(s) ELSE to)

Min(a, b) == IF a < b THEN a ELSE b

\* Array.prototype.includes for an array of values
arrayIncludes(s, x) == \E i \in 1..Len(s) : s[i] = x

RECURSIVE Flatten(_)
\* concatenation of the arrays of an array
Flatten(ss) == IF ss = <<>> THEN <<>> ELSE Head(ss) \o Flatten(Tail(ss))


\* [...new Set(array)] and the includes-then-push idiom: the first occurrences
\* that are not in seen, in insertion order
Dedup(s, seen) ==
  FilterIdx(s, {i \in 1..Len(s) :
                  s[i] \notin seen /\ \A j \in 1..(i - 1) : s[j] # s[i]})

RECURSIVE ForRange(_, _, _, _, _)
\* the iterations lo..hi of a loop whose body Step updates acc with items[i],
\* run in order; the range is halved and the first half is computed before
\* the second starts, which keeps the evaluation shallow
ForRange(Step(_, _), acc, items, lo, hi) ==
  IF lo > hi THEN acc
  ELSE IF lo = hi THEN Step(acc, items[lo])
  ELSE LET mid == (lo + hi) \div 2
       IN  CHOOSE r \in {ForRange(Step, half, items, mid + 1, hi) :
                           half \in {ForRange(Step, acc, items, lo, mid)}} : TRUE

\* a loop over all of items, from acc
ForEach(Step(_, _), acc, items) == ForRange(Step, acc, items, 1, Len(items))

(***************************************************************************)
(* Static tables of the handler.                                           *)
(***************************************************************************)
UncSongs ==
  << <<"Carolina", "on", "my", "mind">>, <<"Carolina", "in", "my", "mind">>,
     <<"Carolina">>, <<"Tar", "Heel">>, <<"UNC">>, <<"Chapel", "Hill">> >>

DukeSongs == << <<"Duke">>, <<"Blue", "Devil">>, <<"Duke", "Blue", "Devils">> >>

MitSongs == << <<"MIT">>, <<"Massachusetts", "Institute", "of", "Technology">> >>

PennSongs == << <<"Penn">>, <<"Quaker">> >>

\* Object.entries(schoolSongs), in insertion order
schoolSongs ==
  << [key |-> <<"unc", "chapel", "hill">>, songs |-> UncSongs],
     [key |-> <<"unc">>, songs |-> UncSongs],
     [key |-> <<"university", "of", "north", "carolina">>, songs |-> UncSongs],
     [key |-> <<"duke", "university">>, songs |-> DukeSongs],
     [key |-> <<"duke">>, songs |-> DukeSongs],
     [key |-> <<"harvard", "university">>,
      songs |-> << <<"Harvard">>, <<"Crimson">> >>],
     [key |-> <<"harvard">>, songs |-> << <<"Harvard">>, <<"Crimson">> >>],
     [key |-> <<"yale", "university">>,
      songs |-> << <<"Yale">>, <<"Bulldog">> >>],
     [key |-> <<"yale">>, songs |-> << <<"Yale">>, <<"Bulldog">> >>],
     [key |-> <<"stanford", "university">>,
      songs |-> << <<"Stanford">>, <<"Cardinal">> >>],
     [key |-> <<"stanford">>, songs |-> << <<"Stanford">>, <<"Cardinal">> >>],
     [key |-> <<"mit">>, songs |-> MitSongs],
     [key |-> <<"massachusetts", "institute", "of", "technology">>,
      songs |-> MitSongs],
     [key |-> <<"princeton", "university">>,
      songs |-> << <<"Princeton">>, <<"Tiger">> >>],
     [key |-> <<"princeton">>, songs |-> << <<"Princeton">>, <<"Tiger">> >>],
     [key |-> <<"columbia", "university">>,
      songs |-> << <<"Columbia">>, <<"Lion">> >>],
     [key |-> <<"columbia">>, songs |-> << <<"Columbia">>, <<"Lion">> >>],
     [key |-> <<"university", "of", "pennsylvania">>, songs |-> PennSongs],
     [key |-> <<"penn">>, songs |-> PennSongs],
     [key |-> <<"upenn">>, songs |-> PennSongs] >>

lofiArtists ==
  << <<"Lofi", "Girl">>, <<"Chillhop", "Music">>, <<"Kupla">>, <<"Idealism">>,
     <<"Jinsang">>, <<"Nujabes">>, <<"Tomppabeats">>, <<"Birocratic">>,
     <<"Sleepy", "Fish">>, <<"Aso">>, <<"eery">>, <<"SwuM">>, <<"Bonobo">>,
     <<"Tycho">>, <<"Boards", "of", "Canada">>, <<"Brian", "Eno">> >>

\* Object.entries(genreToArtists); the handler reads the first five names of a
\* row only (artists.slice(0, 5))
genreToArtists ==
  << [key |-> <<"indie", "folk">>,
      artists |-> << <<"Noah", "Kahan">>, <<"Hozier">>, <<"Lizzy", "McAlpine">>,
                     <<"Mt.", "Joy">>, <<"Bon", "Iver">>, <<"The", "Lumineers">>,
                     <<"Gregory", "Alan", "Isakov">>, <<"Phoebe", "Bridgers">>,
                     <<"Fleet", "Foxes">>, <<"Iron", "&", "Wine">>,
                     <<"Ben", "Howard">>, <<"Jose", "Gonzalez">> >>],
     [key |-> <<"folk", "pop">>,
      artists |-> << <<"Noah", "Kahan">>, <<"Hozier">>, <<"Lizzy", "McAlpine">>,
                     <<"Mt.", "Joy">>, <<"The", "Lumineers">>,
                     <<"Mumford", "&", "Sons">>,
                     <<"Of", "Monsters", "and", "Men">>, <<"Vance", "Joy">> >>],
     [key |-> <<"folk">>,
      artists |-> << <<"Noah", "Kahan">>, <<"Hozier">>, <<"The", "Lumineers">>,
                     <<"Mumford", "&", "Sons">>, <<"Iron", "&", "Wine">>,
                     <<"Fleet", "Foxes">>, <<"Bon", "Iver">> >>],
     [key |-> <<"pop">>,
      artists |-> << <<"Taylor", "Swift">>, <<"Ariana", "Grande">>,
                     <<"Ed", "Sheeran">>, <<"Dua", "Lipa">>, <<"The", "Weeknd">>,
                     <<"Billie", "Eilish">>, <<"Olivia", "Rodrigo">>,
                     <<"Harry", "Styles">> >>],
     [key |-> <<"indie", "pop">>,
      artists |-> << <<"Phoebe", "Bridgers">>, <<"Clairo">>, <<"Boygenius">>,
                     <<"Lorde">>, <<"Tame", "Impala">>, <<"Arctic", "Monkeys">>,
                     <<"The", "1975">>, <<"Lana", "Del", "Rey">> >>],
     [key |-> <<"hip", "hop">>,
      artists |-> << <<"Drake">>, <<"Kendrick", "Lamar">>, <<"Travis", "Scott">>,
                     <<"Post", "Malone">>, <<"J.", "Cole">>,
                     <<"Tyler", ",", "The", "Creator">>, <<"Kanye", "West">> >>],
     [key |-> <<"R&B">>,
      artists |-> << <<"The", "Weeknd">>, <<"SZA">>, <<"Frank", "Ocean">>,
                     <<"Daniel", "Caesar">>, <<"Khalid">>, <<"H.E.R.">>,
                     <<"Alicia", "Keys">> >>],
     [key |-> <<"country">>,
      artists |-> << <<"Luke", "Combs">>, <<"Morgan", "Wallen">>,
                     <<"Zach", "Bryan">>, <<"Kacey", "Musgraves">>,
                     <<"Chris", "Stapleton">>, <<"Maren", "Morris">> >>],
     [key |-> <<"acoustic">>,
      artists |-> << <<"Ed", "Sheeran">>, <<"John", "Mayer">>, <<"James", "Bay">>,
                     <<"Damien", "Rice">>, <<"Ben", "Howard">>,
                     <<"Jose", "Gonzalez">> >>],
     [key |-> <<"rock">>,
      artists |-> << <<"The", "Killers">>, <<"Arctic", "Monkeys">>,
                     <<"Foo", "Fighters">>,
                     <<"Red", "Hot", "Chili", "Peppers">>,
                     <<"Imagine", "Dragons">> >>],
     [key |-> <<"electronic">>,
      artists |-> << <<"Daft", "Punk">>, <<"The", "Chemical", "Brothers">>,
                     <<"ODESZA">>, <<"Flume">>, <<"Disclosure">> >>],
     [key |-> <<"dance">>,
      artists |-> << <<"Calvin", "Harris">>, <<"David", "Guetta">>, <<"Avicii">>,
                     <<"Swedish", "House", "Mafia">>, <<"Martin", "Garrix">> >>],
     [key |-> <<"lofi">>, artists |-> SubSeq(lofiArtists, 1, 14)],
     [key |-> <<"lo-fi">>, artists |-> SubSeq(lofiArtists, 1, 14)],
     [key |-> <<"ambient">>,
      artists |-> << <<"Bonobo">>, <<"Tycho">>, <<"Boards", "of", "Canada">>,
                     <<"Brian", "Eno">>, <<"Marconi", "Union">>, <<"Hammock">>,
                     <<"Stars", "of", "the", "Lid">> >>],
     [key |-> <<"instrumental">>,
      artists |-> << <<"Bonobo">>, <<"Tycho">>, <<"Nujabes">>, <<"Jinsang">>,
                     <<"Tomppabeats">>, <<"Birocratic">> >>],
     [key |-> <<"chill">>,
      artists |-> << <<"Lofi", "Girl">>, <<"Chillhop", "Music">>, <<"Kupla">>,
                     <<"Bonobo">>, <<"Tycho">>, <<"ODESZA">> >>] >>

edmKeywords ==
  {"edm", "electronic", "dance", "house", "techno", "trance", "dubstep",
   "rave", "festival"}

classroomWords ==
  {"classroom", "school", "study", "desk", "student", "teacher", "education",
   "learning", "academic", "lecture", "whiteboard", "blackboard", "chalkboard"}

(***************************************************************************)
(* The catalog (Spotify Web API) and its track objects.                    *)
(***************************************************************************)
\* popularity of a track object that carries none ((t.popularity || 0))
NoPopularity == -1

BandNames ==
  << <<"Band", "Alpha">>, <<"Band", "Beta">>, <<"Duke", "Ellington">>,
     <<"Band", "Delta">>, <<"Band", "Echo">>, <<"Earth">>,
     <<"Earth", ",", "Wind", "&", "Fire">>, <<"Band", "Golf">>,
     <<"Band", "Hotel">>, <<"Band", "India">>, <<"Band", "Juliet">>,
     <<"Band", "Kilo">>, <<"Band", "Lima">>, <<"Band", "Mike">>,
     <<"Band", "Nova">>, <<"Band", "Oscar">>, <<"Band", "Papa">>,
     <<"Band", "Quebec">>, <<"Band", "Romeo">>, <<"Band", "Sierra">>,
     <<"Band", "Tango">>, <<"Band", "Uniform">>, <<"Band", "Victor">>,
     <<"Band", "Whiskey">>, <<"Band", "Xray">>, <<"Band", "Yankee">> >>

\* the artists array of catalog track i: three tracks per artist up to track
\* 15, one track without artist, "Earth" and "Earth, Wind & Fire", then four
\* tracks per artist; every fifth track has a featured second artist
TrackArtists(i) ==
  LET primary ==
        IF i <= 15 THEN << BandNames[((i - 1) \div 3) + 1] >>
        ELSE IF i = 16 THEN <<>>
        ELSE IF i <= 19 THEN << BandNames[6] >>
        ELSE IF i = 20 THEN << BandNames[7] >>
        ELSE << BandNames[8 + (((i - 21) \div 4) % 19)] >>
  IN  IF i % 5 = 0 /\ primary # <<>> THEN primary \o << <<"Guest">> >>
      ELSE primary

TrackName(i) ==
  IF i % 17 = 0 THEN <<>>
  ELSE (IF i % 8 = 6 THEN <<"Duke", "Fight">> ELSE <<>>)
       \o <<"Song">>
       \o (IF i % 7 = 3 THEN <<"Happy">> ELSE <<>>)
       \o (IF i % 9 = 2 THEN <<"unhappy", "calmly">> ELSE <<>>)
       \o (IF i % 11 = 4 THEN <<"Calm">> ELSE <<>>)
       \o (IF i % 10 = 5 THEN <<"Dance">> ELSE <<>>)

\* a track object as the Web API returns it; id 0 is an absent (null) id;
\* the uri of track i ("spotify:track:i") is written i
Track(i) ==
  [id |-> i,
   name |-> TrackName(i),
   artists |-> TrackArtists(i),
   album |-> IF i % 16 = 11 THEN <<"Blue", "Devil", "Hits">> ELSE <<"Album">>,
   popularity |-> IF i % 13 = 0 THEN NoPopularity ELSE (i * 37) % 100,
   preview_url |-> (i % 3 # 1),
   uri |-> i]

NullIdTrack == [Track(1) EXCEPT !.id = 0]

\* A catalog: n tracks exist; the search of the k-th query of the plan answers
\* with the window of ids that starts step * (k - 1) further (wrapping at n);
\* the recommendation endpoint answers with the recs highest ids; known says
\* whether artist names resolve to ids; nullIds adds an id-less item to every
\* non-empty answer; down is the error every call fails with ("" when up);
\* flaky says whether single calls of a catalog that is up can fail.
Worlds ==
  { [n |-> 0, step |-> 1, recs |-> 0, known |-> FALSE, nullIds |-> FALSE,
     flaky |-> FALSE, down |-> ""],
    [n |-> 12, step |-> 5, recs |-> 6, known |-> TRUE, nullIds |-> TRUE,
     flaky |-> FALSE, down |-> ""],
    [n |-> 20, step |-> 7, recs |-> 10, known |-> TRUE, nullIds |-> FALSE,
     flaky |-> TRUE, down |-> ""],
    [n |-> 34, step |-> 9, recs |-> 20, known |-> FALSE, nullIds |-> FALSE,
     flaky |-> FALSE, down |-> ""],
    [n |-> 90, step |-> 10, recs |-> 50, known |-> TRUE, nullIds |-> FALSE,
     flaky |-> FALSE, down |-> ""],
    [n |-> 34, step |-> 9, recs |-> 20, known |-> TRUE, nullIds |-> FALSE,
     flaky |-> FALSE, down |-> "auth"],
    [n |-> 34, step |-> 9, recs |-> 20, known |-> TRUE, nullIds |-> FALSE,
     flaky |-> FALSE, down |-> "rate"] }

\* the kinds of error one catalog call can fail with
ErrorKinds == {"auth", "rate", "timeout", "malformed"}

\* body.tracks.items of searchTracks(query, {limit}) for the query in slot k
SearchItems(w, k, limit) ==
  IF w.n = 0 THEN <<>>
  ELSE LET off == ((k - 1) * w.step) % w.n
           cnt == Min(limit, w.n - off)
       IN  [j \in 1..cnt |-> Track(off + j)]
           \o (IF w.nullIds THEN <<NullIdTrack>> ELSE <<>>)

\* body.tracks of getRecommendations
RecommendationTracks(w) ==
  LET cnt == Min(w.recs, w.n)
  IN  [j \in 1..cnt |-> Track(w.n + 1 - j)]

(***************************************************************************)
(* The analysis inputs (req.body.analysis).                                *)
(***************************************************************************)
NoAnalysis ==
  [given |-> FALSE, genresGiven |-> FALSE, genres |-> <<>>, mood |-> <<>>,
   energy |-> "", tempo |-> "", musicalKeywords |-> <<>>,
   description |-> <<>>, artists |-> <<>>, school |-> <<>>]

AnPop ==
  [NoAnalysis EXCEPT !.given = TRUE, !.genresGiven = TRUE,
     !.genres = << <<"pop">> >>, !.mood = <<"happy">>, !.energy = "high",
     !.tempo = "fast"]

AnNoGenres ==
  [NoAnalysis EXCEPT !.given = TRUE, !.mood = <<"Calm">>, !.energy = "low",
     !.tempo = "slow",
     !.musicalKeywords = << <<"acoustic">>, <<"soft">> >>,
     !.artists = << <<"Hozier">>, <<"Bon", "Iver">>, <<"Clairo">>,
                    <<"Lorde">>, <<"Khalid">>, <<"Flume">>, <<"Avicii">> >>]

AnJazz ==
  [NoAnalysis EXCEPT !.given = TRUE, !.genresGiven = TRUE,
     !.genres = << <<"jazz">> >>]

AnEmptyGenres ==
  [NoAnalysis EXCEPT !.given = TRUE, !.genresGiven = TRUE, !.mood = <<"sad">>]

AnClassroom ==
  [NoAnalysis EXCEPT !.given = TRUE, !.genresGiven = TRUE,
     !.genres = << <<"lofi">>, <<"chill">> >>, !.mood = <<"calm">>,
     !.energy = "low", !.tempo = "slow",
     !.description = <<"a", "student", "at", "a", "desk">>,
     !.artists = << <<"Nujabes">>, <<"Taylor", "Swift">> >>]

AnDuke ==
  [NoAnalysis EXCEPT !.given = TRUE, !.genresGiven = TRUE,
     !.genres = << <<"rock">> >>, !.mood = <<"happy">>, !.energy = "high",
     !.tempo = "fast",
     !.description = <<"campus", "of", "Duke", "University">>,
     !.school = <<"Duke", "University">>]

AnDukeClass ==
  [NoAnalysis EXCEPT !.given = TRUE, !.genresGiven = TRUE,
     !.genres = << <<"indie", "pop">> >>, !.mood = <<"happy">>,
     !.energy = "medium", !.tempo = "moderate",
     !.description = <<"a", "school", "library">>,
     !.school = <<"Duke">>]

\* an analysis that names more artists than seedArtists keeps (26 > 25)
AnManyArtists ==
  [NoAnalysis EXCEPT !.given = TRUE, !.genresGiven = TRUE,
     !.genres = << <<"rock">> >>, !.mood = <<"happy">>,
     !.artists = << <<"Adele">>, <<"Beck">>, <<"Cher">>, <<"Drake">>,
                    <<"Enya">>, <<"Feist">>, <<"Grimes">>, <<"Halsey">>,
                    <<"Iggy">>, <<"Jewel">>, <<"Kesha">>, <<"Lizzo">>,
                    <<"Moby">>, <<"Nas">>, <<"Oasis">>, <<"Prince">>,
                    <<"Queen">>, <<"Rihanna">>, <<"Sade">>, <<"Tove">>,
                    <<"Usher">>, <<"Vance">>, <<"Weezer">>, <<"Xzibit">>,
                    <<"Yes">>, <<"Zedd">> >>]

\* an analysis whose school matches no key of schoolSongs and whose
\* description names one
AnWakeDuke ==
  [NoAnalysis EXCEPT !.given = TRUE, !.genresGiven = TRUE,
     !.genres = << <<"rock">> >>, !.mood = <<"happy">>,
     !.description = <<"a", "game", "at", "duke">>,
     !.school = <<"wake", "forest">>]

Analyses ==
  {NoAnalysis, AnPop, AnNoGenres, AnJazz, AnEmptyGenres, AnClassroom, AnDuke,
   AnDukeClass, AnManyArtists, AnWakeDuke}

PopularityFilters == {"", "mainstream", "indie", "mixed"}

(***************************************************************************)
(* Query planning: the synchronous code between getMe and the catalog      *)
(* calls.                                                                  *)
(***************************************************************************)
\* const genres = analysis.genres || ['pop']
Genres(a) == IF a.genresGiven THEN a.genres ELSE << <<"pop">> >>

\* const energy = analysis.energy || 'medium'
Energy(a) == IF a.energy = "" THEN "medium" ELSE a.energy

\* const tempo = analysis.tempo || 'moderate'
Tempo(a) == IF a.tempo = "" THEN "moderate" ELSE a.tempo

\* smallest element of a non-empty set of indexes (the first match of a loop)
First(S) == CHOOSE i \in S : \A j \in S : i <= j

\* index in schoolSongs of the detected school, 0 when none is detected
SchoolIndex(a) ==
  LET schoolLower == toLowerCase(a.school)
      descLower == toLowerCase(a.description)
      direct == {i \in 1..Len(schoolSongs) :
                   \/ includes(schoolLower, schoolSongs[i].key)
                   \/ includes(schoolSongs[i].key, schoolLower)}
      fromDesc == {i \in 1..Len(schoolSongs) :
                     includes(descLower, schoolSongs[i].key)}
  IN  IF a.school = <<>> THEN 0
      ELSE IF direct # {} THEN First(direct)
      ELSE IF a.description # <<>> /\ fromDesc # {} THEN First(fromDesc)
      ELSE 0

DetectedSchool(a) ==
  IF SchoolIndex(a) = 0 THEN <<>> ELSE schoolSongs[SchoolIndex(a)].key

SchoolSearchTerms(a) ==
  IF SchoolIndex(a) = 0 THEN <<>> ELSE schoolSongs[SchoolIndex(a)].songs

IsClassroomScene(a) ==
  LET descriptionLower == toLowerCase(a.description)
      genres == Genres(a)
  IN  \/ \E w \in classroomWords : includes(descriptionLower, <<w>>)
      \/ \E i \in 1..Len(genres) :
            \/ includes(toLowerCase(genres[i]), <<"lofi">>)
            \/ includes(toLowerCase(genres[i]), <<"lo-fi">>)

\* genreToArtists[genreKey] || []
GenreArtists(genreKey) ==
  LET hits == {i \in 1..Len(genreToArtists) : genreToArtists[i].key = genreKey}
  IN  IF hits = {} THEN <<>> ELSE genreToArtists[First(hits)].artists

SeedArtists(a) ==
  LET artistsFromAnalysis == a.artists
      genres == Genres(a)
      lofiFromAnalysis ==
        FilterIdx(artistsFromAnalysis,
                  {i \in 1..Len(artistsFromAnalysis) :
                     \E l \in 1..Len(lofiArtists) :
                        \/ includes(toLowerCase(artistsFromAnalysis[i]),
                                    toLowerCase(lofiArtists[l]))
                        \/ includes(toLowerCase(lofiArtists[l]),
                                    toLowerCase(artistsFromAnalysis[i]))})
      fromGenres ==
        Flatten([g \in 1..Min(3, Len(genres)) |->
                   slice(GenreArtists(toLowerCase(genres[g])), 0, 5)])
  IN  IF IsClassroomScene(a)
        THEN slice(Dedup(lofiArtists \o lofiFromAnalysis, {}), 0, 25)
      ELSE IF Len(artistsFromAnalysis) > 0
        THEN slice(artistsFromAnalysis, 0, 25)
      ELSE Dedup(fromGenres, {})

\* genreKey.replace(/\s+/g, '-').replace('r&b', 'r-n-b'); the tokens of a slug
\* are its hyphen-separated parts
SpotifyGenre(genreKey) ==
  IF genreKey = <<"lofi">> \/ genreKey = <<"lo-fi">> THEN <<"chill">>
  ELSE [i \in 1..Len(genreKey) |->
          IF genreKey[i] = "r&b" THEN "r-n-b" ELSE genreKey[i]]

SeedGenres(a) ==
  LET genres == Genres(a)
  IN  IF IsClassroomScene(a) THEN << <<"chill">>, <<"ambient">> >>
      ELSE Dedup([g \in 1..Min(2, Len(genres)) |->
                    SpotifyGenre(toLowerCase(genres[g]))], {})

\* searchQueries, in construction order
SearchQueries(a, seedArtists) ==
  LET genres == Genres(a)
      terms == SchoolSearchTerms(a)
      schoolName == a.school
      schoolPart ==
        IF DetectedSchool(a) # <<>> /\ Len(terms) > 0
          THEN [i \in 1..Len(terms) |-> <<"\"">> \o terms[i] \o <<"\"">>]
               \o << schoolName \o <<"fight", "song">>,
                     schoolName \o <<"anthem">>,
                     schoolName \o <<"song">> >>
          ELSE <<>>
      artistQueries(names) ==
        [i \in 1..Len(names) |-> <<"artist:">> \o names[i]]
      artistPart ==
        IF IsClassroomScene(a)
          THEN << <<"lofi">>, <<"lo-fi">>, <<"study", "music">>,
                  <<"chillhop">>, <<"lofi", "hip", "hop">> >>
               \o artistQueries(slice(lofiArtists, 0, 20))
          ELSE artistQueries(slice(seedArtists, 0, 25))
      primaryGenre == genres[1]
      keywords == slice(a.musicalKeywords, 0, 3)
      genrePart ==
        IF Len(genres) > 0
          THEN (IF a.mood # <<>> THEN << primaryGenre \o a.mood >> ELSE <<>>)
               \o (IF Energy(a) = "high"
                     THEN << primaryGenre \o <<"upbeat">> >>
                   ELSE IF Energy(a) = "low"
                     THEN << primaryGenre \o <<"mellow">>,
                             primaryGenre \o <<"acoustic">> >>
                   ELSE <<>>)
               \o [i \in 1..Len(keywords) |-> primaryGenre \o keywords[i]]
          ELSE <<>>
  IN  schoolPart \o artistPart \o genrePart

\* isSchoolRelatedTrack(track), for the detectedSchool and schoolSearchTerms of
\* the request
isSchoolRelatedTrack(a, detectedSchool, terms, track) ==
  LET trackName == toLowerCase(track.name)
      artistName == IF track.artists = <<>> THEN <<>>
                    ELSE toLowerCase(track.artists[1])
      albumName == toLowerCase(track.album)
      schoolNameLower == toLowerCase(a.school)
  IN  IF detectedSchool = <<>> \/ Len(terms) = 0 THEN FALSE
      ELSE \/ \E i \in 1..Len(terms) :
                LET termLower == toLowerCase(terms[i])
                IN  \/ includes(trackName, termLower)
                    \/ includes(artistName, termLower)
                    \/ includes(albumName, termLower)
           \/ includes(trackName, schoolNameLower)
           \/ includes(artistName, schoolNameLower)

(***************************************************************************)
(* Math.random: a generator with a seed; every shuffle draws its indexes   *)
(* from the current seed and advances the generator.                       *)
(***************************************************************************)
Seeds == 0..MaxSeed

\* Math.floor(Math.random() * (i + 1)) under a given seed
RandIndex(seed, i) == (i + seed * ((i \div 2) + 1)) % (i + 1)

NextSeed(seed, k) == (seed + k) % (MaxSeed + 1)

\* [shuffled[i], shuffled[j]] = [shuffled[j], shuffled[i]] for the j drawn at
\* i, positions counted from 0 as in the source
SwapStep(shuffled, i, seed) ==
  LET j == RandIndex(seed, i)
  IN  [shuffled EXCEPT ![i + 1] = shuffled[j + 1], ![j + 1] = shuffled[i + 1]]

\* for (let i = shuffled.length - 1; i > 0; i--) { swap }
shuffleArray(arr, seed) ==
  LET Swap(shuffled, i) == SwapStep(shuffled, i, seed)
  IN  ForEach(Swap, arr, [k \in 1..(Len(arr) - 1) |-> Len(arr) - k])

\* [...arr].sort(() => Math.random() - 0.5): a permutation that the generator
\* determines
randomSort(arr, seed) == shuffleArray(arr, seed)

(***************************************************************************)
(* State of one preview request.                                           *)
(***************************************************************************)
VARIABLES
  method,            \* req.method
  analysis,          \* req.body.analysis
  popularityFilter,  \* req.body.popularityFilter ("" when absent)
  accessToken,       \* whether the spotify_access_token cookie is present
  meStatus,          \* the status spotifyApi.getMe() answers with
  catalog,           \* the catalog the calls of this request go to
  rnd,               \* the seed of Math.random
  pc,                \* position of the handler
  pending,           \* artist lookups (indexes of seedArtists) not yet answered
  resolvedIds,       \* index of seedArtists -> resolved artist id (<<>> is null)
  artistIds,
  seedArtists,
  seedGenres,
  searchQueries,
  orderedQueries,
  qi,                \* searches of the directive loop done so far
  fi,                \* fallback artists visited so far
  allTracks,
  seenTrackIds,
  artistCounts,
  faults,            \* failed catalog calls so far
  lastCall,          \* the catalog call answered last
  gotItems,          \* some track call has answered with at least one item
  popFiltered,       \* filteredTracks right after the popularity filter
  filteredTracks,    \* filteredTracks after school prioritisation and shuffle
  status,            \* HTTP status of the response, 0 while there is none
  resError,          \* the error text of the response body ("" when none)
  resTracks,         \* the tracks of the response body
  run,               \* 1 for a request, 2 for its repetition with the same body
  firstIds,          \* the ids of the pool the first of two requests gathered
  firstResponse,     \* the first of two requests: its first seed, the first
                     \* seed of its repetition, its status and the ids of
                     \* its list in order
  fill,              \* the fill loop of the finalizer taken step by step:
                     \* its position, allTracks, uniqueTracks and
                     \* finalArtistCounts
  mat,               \* a request to /api/playlist: its position, the tracks
                     \* the page shows, req.body.trackUris, finalTrackUris,
                     \* the tracks added to the playlist and the status
  other,             \* with two requests in the server: the locals of the
                     \* request that is waiting at an await, and how often
                     \* the two have taken turns
  oauth,             \* the login flow: the browser's cookies and the last
                     \* response of /api/auth/login or /api/auth/callback
  page,              \* the playlist page: its React state and the preview
                     \* fetches in flight
  auth               \* the browser's token cookies and the last answer of
                     \* getSpotifyApi: the time, the access token held by
                     \* the cookie (its time of issue, -1 without cookie),
                     \* the end of that cookie, the refresh cookie, and
                     \* what the call returned

inputVars == <<method, analysis, popularityFilter, accessToken, meStatus, catalog>>

planVars == <<seedArtists, seedGenres, searchQueries, orderedQueries>>

poolVars == <<allTracks, seenTrackIds, artistCounts>>

stageVars == <<popFiltered, filteredTracks>>

resVars == <<status, resError, resTracks>>

runVars == <<run, firstIds, firstResponse>>

\* the state of the parts that are followed on their own
sideVars == <<fill, mat, auth, other, oauth, page>>

\* the state of a preview request and of its repetition
previewVars ==
  <<inputVars, rnd, pc, pending, resolvedIds, artistIds, planVars, qi, fi,
    poolVars, faults, lastCall, gotItems, stageVars, resVars, runVars>>

vars == <<previewVars, sideVars>>

(***************************************************************************)
(* Candidate pool insertion.                                               *)
(***************************************************************************)
\* track.artists?.[0]?.name || ''
PrimaryArtist(track) == IF track.artists = <<>> THEN <<>> ELSE track.artists[1]

\* artistCounts[name], 0 for a name without entry
Count(counts, name) == IF name \in DOMAIN counts THEN counts[name] ELSE 0

\* counts[name] = (counts[name] || 0) + 1
Increment(counts, name) ==
  [k \in DOMAIN counts \cup {name} |->
     IF k = name THEN Count(counts, name) + 1 ELSE counts[k]]

\* the cap test with > in place of >=: a fourth track of an artist passes
CapReachedOffByOne(counts, primaryArtist) ==
  primaryArtist # <<>> /\ Count(counts, primaryArtist) > maxTracksPerArtist

\* the artist cap test: primaryArtist && artistCounts[primaryArtist] >= max
CapReached(counts, primaryArtist) ==
  primaryArtist # <<>> /\ Count(counts, primaryArtist) >= maxTracksPerArtist

\* the insertion without the test of seenTrackIds
InsertTrackNoSeenCheck(p, track) ==
  IF track.id = 0 THEN p
  ELSE IF CapReached(p.artistCounts, PrimaryArtist(track)) THEN p
  ELSE [allTracks |-> Append(p.allTracks, track),
        seenTrackIds |-> p.seenTrackIds \cup {track.id},
        artistCounts |->
          IF PrimaryArtist(track) # <<>>
            THEN Increment(p.artistCounts, PrimaryArtist(track))
            ELSE p.artistCounts]

\* the body of the three insertion loops, on the pool p
InsertTrack(p, track) ==
  IF track.id = 0 THEN p
  ELSE IF track.id \in p.seenTrackIds THEN p
  ELSE IF CapReached(p.artistCounts, PrimaryArtist(track)) THEN p
  ELSE [allTracks |-> Append(p.allTracks, track),
        seenTrackIds |-> p.seenTrackIds \cup {track.id},
        artistCounts |->
          IF PrimaryArtist(track) # <<>>
            THEN Increment(p.artistCounts, PrimaryArtist(track))
            ELSE p.artistCounts]

\* for (const track of items) { ... } of the recommendation and search loops
InsertAll(p, items) == ForEach(InsertTrack, p, items)

\* the body of the fallback loop: break at 2 * targetTrackCount tracks
InsertFallbackTrack(p, track) ==
  IF Len(p.allTracks) >= targetTrackCount * 2 THEN p ELSE InsertTrack(p, track)

\* the fallback loop over the items of one answer
InsertFallback(p, items) == ForEach(InsertFallbackTrack, p, items)

Pool == [allTracks |-> allTracks, seenTrackIds |-> seenTrackIds,
         artistCounts |-> artistCounts]

SetPool(p) ==
  /\ allTracks' = p.allTracks
  /\ seenTrackIds' = p.seenTrackIds
  /\ artistCounts' = p.artistCounts

(***************************************************************************)
(* Catalog calls.                                                          *)
(***************************************************************************)
\* the outcomes one catalog call can have: "ok" or the kind of its error
Outcomes ==
  IF catalog.down # "" THEN {catalog.down}
  ELSE {"ok"}
       \cup (IF catalog.flaky /\ faults < MaxFaults THEN ErrorKinds ELSE {})

\* before any catalog call
NoCall == [api |-> "", query |-> <<>>, out |-> "", size |-> 0]

\* the record of a call: what was asked, how it ended, and the size of the pool
\* when it was made
Logged(api, query, out) ==
  [api |-> api, query |-> query, out |-> out, size |-> Len(allTracks)]

CountFault(out) == faults' = IF out = "ok" THEN faults ELSE faults + 1

\* the items of the answer are used although the call has thrown
SearchAnswerIgnoringError(out, slot, limit) == SearchItems(catalog, slot, limit)

\* the items the loop body sees for a searchTracks call: the items of the
\* answer, none when the call throws into the catch of its try
SearchAnswer(out, slot, limit) ==
  IF out = "ok" THEN SearchItems(catalog, slot, limit) ELSE <<>>

\* the slot of a query in the catalog: its position in searchQueries, and for
\* a query that is not among them a position after them
SlotOf(queries, query) ==
  LET hits == {i \in 1..Len(queries) : queries[i] = query}
  IN  IF hits # {} THEN First(hits) ELSE Len(queries) + Len(query)

QuerySlot(query) == SlotOf(searchQueries, query)

\* the directive loop head without the early stop at 3 x targetTrackCount
SearchContinuesNoEarlyStop(queries, done, tracks) ==
  done < Len(slice(queries, 0, 15))

\* for (const query of orderedQueries.slice(0, 15)) with its early stop
SearchContinues(queries, done, tracks) ==
  /\ done < Len(slice(queries, 0, 15))
  /\ ~(Len(tracks) >= targetTrackCount * 3)

\* the fallback list taken from the first seed artist on
fallbackArtistsFromFirst == slice(seedArtists, 0, 25)

fallbackArtists == slice(seedArtists, 5, 25)

\* the fallback block is entered and its loop has a further artist to search
FallbackContinues(done, tracks) ==
  /\ Len(tracks) < targetTrackCount * 2
  /\ Len(seedArtists) > 5
  /\ done < Len(fallbackArtists)

\* where the handler waits next once the directive loop stands at `done`
PcAfterSearch(queries, done, tracks) ==
  IF SearchContinues(queries, done, tracks) THEN "search"
  ELSE IF FallbackContinues(0, tracks) THEN "fallback"
  ELSE "finalize"

PcAfterFallback(done, tracks) ==
  IF FallbackContinues(done, tracks) THEN "fallback" ELSE "finalize"

\* orderedQueries: school queries first and in order, the rest shuffled
OrderedQueries(a, queries, seed) ==
  LET terms == SchoolSearchTerms(a)
      isSchoolQuery(q) ==
        \E t \in 1..Len(terms) :
           includes(toLowerCase(q), toLowerCase(terms[t]))
      schoolQueries ==
        FilterIdx(queries,
                  {i \in 1..Len(queries) : isSchoolQuery(queries[i])})
      otherQueries ==
        FilterIdx(queries,
                  {i \in 1..Len(queries) : ~isSchoolQuery(queries[i])})
  IN  IF DetectedSchool(a) # <<>> /\ Len(terms) > 0
        THEN schoolQueries \o shuffleArray(otherQueries, seed)
        ELSE shuffleArray(queries, seed)

(***************************************************************************)
(* Selection filter and diversity finalizer: the synchronous tail of the   *)
(* handler that follows the last catalog call.                             *)
(***************************************************************************)
\* (t.popularity || 0)
Pop(t) == IF t.popularity = NoPopularity THEN 0 ELSE t.popularity

\* Array.prototype.filter for a predicate on the elements
Select(s, Test(_)) == SelectSeq(s, Test)

\* Array.prototype.sort (stable) for a comparator that orders by a number:
\* ascending keys, equal keys in their previous order
SortByKey(s, Key(_)) ==
  LET keys == [i \in 1..Len(s) |-> Key(s[i])]
      before(i, j) == keys[i] < keys[j] \/ (keys[i] = keys[j] /\ i < j)
      order == SortSeq([i \in 1..Len(s) |-> i], before)
  IN  [k \in 1..Len(s) |-> s[order[k]]]

\* new Set(tracks.map(t => t.id))
IdsOf(tracks) == {tracks[i].id : i \in 1..Len(tracks)}

\* the classroom filter on allTracks (edmKeywords); a catalog track object has
\* no energy field, so isHighEnergy is always falsy
EdmFilter(tracks) ==
  LET hasEdmKeyword(t) ==
        \E kw \in edmKeywords :
           \/ includes(toLowerCase(t.name), <<kw>>)
           \/ includes(toLowerCase(PrimaryArtist(t)), <<kw>>)
           \/ includes(toLowerCase(t.album), <<kw>>)
      keep(t) == t.name = <<>> \/ ~hasEdmKeyword(t)
  IN  Select(tracks, keep)

\* const filter = popularityFilter || 'mainstream'
Filter(f) == IF f = "" THEN "mainstream" ELSE f

\* the mainstream filter without its sort
MainstreamFilterUnsorted(tracks) ==
  LET atLeast50(t) == Pop(t) >= 50
      atLeast40(t) == Pop(t) >= 40
      Relaxed(strict) ==
        IF Len(strict) < targetTrackCount
          THEN Select(tracks, atLeast40) ELSE strict
  IN  Relaxed(Select(tracks, atLeast50))

\* filter === 'mainstream': threshold 50, relaxed to 40, sorted descending
MainstreamFilter(tracks) ==
  LET atLeast50(t) == Pop(t) >= 50
      atLeast40(t) == Pop(t) >= 40
      negPop(t) == 0 - Pop(t)
      Relaxed(strict) ==
        IF Len(strict) < targetTrackCount
          THEN Select(tracks, atLeast40) ELSE strict
  IN  SortByKey(Relaxed(Select(tracks, atLeast50)), negPop)

\* the indie filter with the relaxed threshold whatever the strict set holds
IndieFilterAlwaysRelaxed(tracks) ==
  LET below70(t) == Pop(t) < 70
  IN  SortByKey(Select(tracks, below70), Pop)

\* filter === 'indie': threshold below 60, relaxed to below 70, sorted ascending
IndieFilter(tracks) ==
  LET below60(t) == Pop(t) < 60
      below70(t) == Pop(t) < 70
      Relaxed(strict) ==
        IF Len(strict) < targetTrackCount
          THEN Select(tracks, below70) ELSE strict
  IN  SortByKey(Relaxed(Select(tracks, below60)), Pop)

\* Math.ceil(totalNeeded * 0.35) and Math.ceil(totalNeeded * 0.30)
HighQuota == (targetTrackCount * 35 + 99) \div 100

LowQuota == (targetTrackCount * 30 + 99) \div 100

\* the mixed filter without the fill from the remaining tracks
MixedFilterNoFill(tracks, seed) ==
  LET isHigh(t) == Pop(t) >= 70
      isMed(t) == Pop(t) >= 40 /\ Pop(t) < 70
      isLow(t) == Pop(t) < 40
      Drawn(tier, quota, s) ==
        slice(shuffleArray(tier, s), 0, Min(quota, Len(tier)))
      Mix(filtered) ==
        [tracks |-> shuffleArray(filtered, NextSeed(seed, 3)), shuffles |-> 4]
  IN  Mix(Drawn(Select(tracks, isHigh), HighQuota, seed)
          \o Drawn(Select(tracks, isMed), HighQuota, NextSeed(seed, 1))
          \o Drawn(Select(tracks, isLow), LowQuota, NextSeed(seed, 2)))

\* 'mixed' (any other filter value): tiers, quotas, fill and shuffle; draws the
\* seeds seed, seed + 1, ... and reports how many shuffles it made
MixedFilter(tracks, seed) ==
  LET isHigh(t) == Pop(t) >= 70
      isMed(t) == Pop(t) >= 40 /\ Pop(t) < 70
      isLow(t) == Pop(t) < 40
      \* shuffleArray(tier).slice(0, Math.min(quota, tier.length))
      Drawn(tier, quota, s) ==
        slice(shuffleArray(tier, s), 0, Min(quota, Len(tier)))
      \* allTracks.filter(t => !filteredTrackIds.has(t.id))
      Remaining(filteredTrackIds) ==
        LET unused(t) == t.id \notin filteredTrackIds
        IN  Select(tracks, unused)
      \* the fill from the remaining tracks and the shuffle of the final mix
      Mix(filtered) ==
        IF Len(filtered) < targetTrackCount
          THEN [tracks |->
                  shuffleArray(
                    filtered
                    \o slice(shuffleArray(Remaining(IdsOf(filtered)),
                                          NextSeed(seed, 3)),
                             0, targetTrackCount - Len(filtered)),
                    NextSeed(seed, 4)),
                shuffles |-> 5]
          ELSE [tracks |-> shuffleArray(filtered, NextSeed(seed, 3)),
                shuffles |-> 4]
  IN  Mix(Drawn(Select(tracks, isHigh), HighQuota, seed)
          \o Drawn(Select(tracks, isMed), HighQuota, NextSeed(seed, 1))
          \o Drawn(Select(tracks, isLow), LowQuota, NextSeed(seed, 2)))

\* the popularity filter stage: filteredTracks and the shuffles it consumed
PopularityFilter(tracks, f, seed) ==
  IF Filter(f) = "mainstream"
    THEN [tracks |-> MainstreamFilter(tracks), shuffles |-> 0]
  ELSE IF Filter(f) = "indie"
    THEN [tracks |-> IndieFilter(tracks), shuffles |-> 0]
  ELSE MixedFilter(tracks, seed)

\* the tracks of filtered that are school related, and those that are not
SchoolTracks(a, detectedSchool, schoolSearchTerms, filtered) ==
  LET isSchool(t) ==
        isSchoolRelatedTrack(a, detectedSchool, schoolSearchTerms, t)
  IN  Select(filtered, isSchool)

NonSchoolTracks(a, detectedSchool, schoolSearchTerms, filtered) ==
  LET notSchool(t) ==
        ~isSchoolRelatedTrack(a, detectedSchool, schoolSearchTerms, t)
  IN  Select(filtered, notSchool)

\* the body of the prioritisation for the two halves of filteredTracks
SchoolFirst(schoolTracks, nonSchoolTracks) ==
  LET schoolTrackCount == Min(Len(schoolTracks), 5)
      remainingCount == targetTrackCount - schoolTrackCount
      \* the fill from the tracks that the first cut left out
      Filled(first, rest) ==
        LET usedIds == IdsOf(first)
            fresh(t) == t.id \notin usedIds
        IN  IF Len(first) < targetTrackCount
              THEN first \o slice(Select(rest, fresh), 0,
                                  targetTrackCount - Len(first))
              ELSE first
  IN  Filled(slice(schoolTracks, 0, schoolTrackCount)
               \o slice(nonSchoolTracks, 0, remainingCount),
             slice(schoolTracks, schoolTrackCount, Len(schoolTracks))
               \o slice(nonSchoolTracks, remainingCount, Len(nonSchoolTracks)))

\* school prioritisation: up to five school tracks first, then the others
SchoolPrioritize(a, detectedSchool, schoolSearchTerms, filtered) ==
  IF detectedSchool # <<>> /\ Len(schoolSearchTerms) > 0
    THEN SchoolFirst(
           SchoolTracks(a, detectedSchool, schoolSearchTerms, filtered),
           NonSchoolTracks(a, detectedSchool, schoolSearchTerms, filtered))
    ELSE filtered

\* the school branch of the final shuffle for the two halves of the list
KeepSchoolShuffle(schoolTracksInList, nonSchoolTracksInList, seed) ==
  LET keepSchoolCount == Min(3, Len(schoolTracksInList))
  IN  slice(schoolTracksInList, 0, keepSchoolCount)
      \o shuffleArray(slice(schoolTracksInList, keepSchoolCount,
                            Len(schoolTracksInList))
                        \o nonSchoolTracksInList,
                      seed)

\* the final shuffle, which keeps the first three school tracks in place
FinalShuffle(a, detectedSchool, schoolSearchTerms, filtered, seed) ==
  IF ~(detectedSchool = <<>> \/ Len(filtered) > 5)
    THEN [tracks |-> filtered, shuffles |-> 0]
  ELSE IF detectedSchool # <<>> /\ Len(schoolSearchTerms) > 0
    THEN [tracks |->
            KeepSchoolShuffle(
              SchoolTracks(a, detectedSchool, schoolSearchTerms, filtered),
              NonSchoolTracks(a, detectedSchool, schoolSearchTerms, filtered),
              seed),
          shuffles |-> 1]
  ELSE [tracks |-> shuffleArray(filtered, seed), shuffles |-> 1]

\* a filter over a Set of seen ids: keeps the first track of every id that is
\* not in seen and drops id-less tracks (deduplicatedTracks; the finalTrackIds
\* pass, which never meets an id-less track)
UniqueById(tracks, seen) ==
  FilterIdx(tracks,
            {i \in 1..Len(tracks) :
               /\ tracks[i].id # 0
               /\ tracks[i].id \notin seen
               /\ \A j \in 1..(i - 1) : tracks[j].id # tracks[i].id})

\* const primaryMood = mood?.toLowerCase() || ''
PrimaryMood(a) == toLowerCase(a.mood)

\* new RegExp(`\\b${primaryMood}\\b`, 'i').test(trackNameLower), guarded by
\* primaryMood && track.name
HasMoodWord(primaryMood, track) ==
  /\ primaryMood # <<>>
  /\ track.name # <<>>
  /\ includes(toLowerCase(track.name), primaryMood)

RECURSIVE Join(_)
\* names.join(', ')
Join(names) ==
  IF names = <<>> THEN <<>>
  ELSE IF Len(names) = 1 THEN names[1]
  ELSE names[1] \o <<",">> \o Join(Tail(names))

\* the object handed to the client for a catalog track
MapTrack(track) ==
  [id |-> track.id, name |-> track.name, artists |-> Join(track.artists),
   album |-> track.album, preview_url |-> track.preview_url,
   uri |-> track.uri]

\* .map(track => ({...})) over an array of catalog tracks
MapTracks(tracks) == [i \in 1..Len(tracks) |-> MapTrack(tracks[i])]

\* track.artists?.split(', ')[0] || '' on a mapped track
FirstArtistName(mapped) ==
  LET commas == {i \in 1..Len(mapped.artists) : mapped.artists[i] = ","}
  IN  IF commas = {} THEN mapped.artists
      ELSE SubSeq(mapped.artists, 1, First(commas) - 1)

\* the primary selection: mood filter, mapping, preview-URL sort, truncation
PrimaryTracks(primaryMood, deduplicatedTracks) ==
  LET noMoodWord(t) == ~HasMoodWord(primaryMood, t)
      hasId(t) == t.id # 0
      previewKey(t) == IF t.preview_url THEN 0 ELSE 1
  IN  slice(SortByKey(
              Select(MapTracks(
                       slice(Select(slice(deduplicatedTracks, 0,
                                          (targetTrackCount * 3) \div 2),
                                    noMoodWord),
                             0, targetTrackCount * 2)),
                     hasId),
              previewKey),
            0, targetTrackCount)

\* uniqueTracks.forEach(track => currentArtistCounts[first name]++), on top
\* of counts
CountArtists(counts, mappedTracks) ==
  LET names == {FirstArtistName(mappedTracks[i]) : i \in 1..Len(mappedTracks)}
                 \ {<<>>}
  IN  [k \in DOMAIN counts \cup names |->
         Count(counts, k)
         + Cardinality({i \in 1..Len(mappedTracks) :
                          FirstArtistName(mappedTracks[i]) = k})]

EmptyCounts == [k \in {} |-> 0]

\* remainingTracks of the first backfill, before the map: the unused tracks of
\* deduplicatedTracks without the mood word whose artist is under the cap
RemainingTracks(primaryMood, deduplicatedTracks, usedIds, counts, needed) ==
  LET eligible(t) ==
        /\ t.id # 0 /\ t.id \notin usedIds
        /\ ~HasMoodWord(primaryMood, t)
        /\ ~CapReached(counts, PrimaryArtist(t))
  IN  slice(Select(deduplicatedTracks, eligible), 0, needed)

\* first backfill: from deduplicatedTracks, with the mood filter
BackfillFiltered(primaryMood, uniqueTracks, deduplicatedTracks) ==
  IF Len(uniqueTracks) < targetTrackCount
    THEN uniqueTracks
         \o MapTracks(RemainingTracks(primaryMood, deduplicatedTracks,
                                      IdsOf(uniqueTracks),
                                      CountArtists(EmptyCounts, uniqueTracks),
                                      targetTrackCount - Len(uniqueTracks)))
    ELSE uniqueTracks

\* additionalTracks of the second backfill, before the map: the unused tracks
\* of allTracks whose artist is under the cap
AdditionalTracks(tracks, usedTrackIds, currentArtistCounts, needed) ==
  LET eligible(t) ==
        /\ t.id # 0 /\ t.id \notin usedTrackIds
        /\ ~CapReached(currentArtistCounts, PrimaryArtist(t))
  IN  slice(Select(tracks, eligible), 0, needed)

\* second backfill: from allTracks, without the mood filter
BackfillUnfiltered(uniqueTracks, tracks) ==
  IF Len(uniqueTracks) < targetTrackCount
    THEN uniqueTracks
         \o MapTracks(AdditionalTracks(tracks, IdsOf(uniqueTracks),
                                       CountArtists(EmptyCounts, uniqueTracks),
                                       targetTrackCount - Len(uniqueTracks)))
    ELSE uniqueTracks

\* the callback of the final deduplication pass on one track; acc holds the
\* kept tracks, finalUniqueTrackIds and finalArtistCounts
FinalPassTrack(acc, track) ==
  LET artistName == FirstArtistName(track)
  IN  IF track.id \in acc.ids \/ CapReached(acc.counts, artistName) THEN acc
      ELSE [tracks |-> Append(acc.tracks, track),
            ids |-> acc.ids \cup {track.id},
            counts |-> IF artistName # <<>>
                         THEN Increment(acc.counts, artistName)
                         ELSE acc.counts]

\* the final deduplication pass: unique ids and at most three tracks per first
\* artist name
FinalPass(acc, tracks) == ForEach(FinalPassTrack, acc, tracks)

\* finalArtistCounts after the map of the fill loop has counted the primary
\* artists of the chosen tracks
IncrementAll(counts, tracks) ==
  LET names == {PrimaryArtist(tracks[i]) : i \in 1..Len(tracks)} \ {<<>>}
  IN  [k \in DOMAIN counts \cup names |->
         Count(counts, k)
         + Cardinality({i \in 1..Len(tracks) : PrimaryArtist(tracks[i]) = k})]

\* moreTracks without the test against the ids already in the list
MoreTracksIgnoringUsed(tracks, usedTrackIds, finalArtistCounts, needed) ==
  LET eligible(t) ==
        /\ t.id # 0
        /\ ~CapReached(finalArtistCounts, PrimaryArtist(t))
  IN  slice(Select(tracks, eligible), 0, needed)

\* moreTracks of one iteration of the fill loop, before the map
MoreTracks(tracks, usedTrackIds, finalArtistCounts, needed) ==
  LET eligible(t) ==
        /\ t.id # 0 /\ t.id \notin usedTrackIds
        /\ ~CapReached(finalArtistCounts, PrimaryArtist(t))
  IN  slice(Select(tracks, eligible), 0, needed)

RECURSIVE FillLoop(_, _, _)
\* while (uniqueTracks.length < targetTrackCount && allTracks.length > 0)
FillLoop(uniqueTracks, finalArtistCounts, tracks) ==
  LET Iterate(moreTracks) ==
        IF Len(moreTracks) = 0 THEN uniqueTracks
        ELSE FillLoop(uniqueTracks \o MapTracks(moreTracks),
                      IncrementAll(finalArtistCounts, moreTracks), tracks)
  IN  IF ~(Len(uniqueTracks) < targetTrackCount /\ Len(tracks) > 0)
        THEN uniqueTracks
      ELSE Iterate(MoreTracks(tracks, IdsOf(uniqueTracks), finalArtistCounts,
                              targetTrackCount - Len(uniqueTracks)))

\* FINAL ABSOLUTE DEDUPLICATION: the first track of every id, no id-less track
AbsoluteUnique(tracks, absoluteSeenIds) ==
  FilterIdx(tracks,
            {i \in 1..Len(tracks) :
               /\ tracks[i].id # 0
               /\ tracks[i].id \notin absoluteSeenIds
               /\ \A j \in 1..(i - 1) : tracks[j].id # tracks[i].id})

\* the end of the finalizer with a fill loop that does not look at the ids
\* already chosen and without the absolute deduplication
FinalBlockNoIdCheck(uniqueTracks, tracks) ==
  LET Fill(passed) ==
        passed.tracks
        \o MapTracks(slice(tracks, 0, targetTrackCount - Len(passed.tracks)))
  IN  slice(Fill(FinalPass([tracks |-> <<>>, ids |-> {},
                            counts |-> EmptyCounts],
                           uniqueTracks)),
            0, targetTrackCount)

\* the end of the finalizer: the final deduplication pass, the fill loop, the
\* cut to targetTrackCount and the absolute deduplication
FinalBlock(uniqueTracks, tracks) ==
  LET Fill(passed) == FillLoop(passed.tracks, passed.counts, tracks)
  IN  AbsoluteUnique(
        slice(Fill(FinalPass([tracks |-> <<>>, ids |-> {},
                              counts |-> EmptyCounts],
                             uniqueTracks)),
              0, targetTrackCount),
        {})

\* the selection and the two backfills on deduplicatedTracks
Backfilled(primaryMood, deduplicatedTracks, tracks) ==
  BackfillUnfiltered(
    BackfillFiltered(primaryMood,
                     UniqueById(PrimaryTracks(primaryMood, deduplicatedTracks),
                                {}),
                     deduplicatedTracks),
    tracks)

\* the diversity finalizer, from shuffledTracks to the response list
DiversityFinalize(a, shuffledTracks, tracks) ==
  FinalBlock(Backfilled(PrimaryMood(a), UniqueById(shuffledTracks, {}), tracks),
             tracks)

\* the stages after the EDM filter, for the school that was detected
Staged(a, f, detectedSchool, schoolSearchTerms, pool, tracks, seed) ==
  LET Result(stage, final, uniqueTracks) ==
        [status |-> IF Len(uniqueTracks) = 0 THEN 404 ELSE 200,
         error |-> IF Len(uniqueTracks) = 0 THEN "No valid tracks found"
                   ELSE "",
         tracks |-> uniqueTracks, allTracks |-> tracks,
         popFiltered |-> stage.tracks, filteredTracks |-> final.tracks,
         shuffles |-> stage.shuffles + final.shuffles]
      Finalized(stage, final) ==
        Result(stage, final, DiversityFinalize(a, final.tracks, tracks))
      Shuffled(stage) ==
        Finalized(stage,
                  FinalShuffle(a, detectedSchool, schoolSearchTerms,
                               SchoolPrioritize(a, detectedSchool,
                                                schoolSearchTerms,
                                                stage.tracks),
                               NextSeed(seed, stage.shuffles)))
  IN  Shuffled(PopularityFilter(tracks, f, seed))

\* the synchronous tail without the check for an empty pool
FinalizeResultNoEmptyCheck(a, f, pool, seed) ==
  Staged(a, f, DetectedSchool(a), SchoolSearchTerms(a), pool,
         IF IsClassroomScene(a) THEN EdmFilter(pool) ELSE pool, seed)

\* the whole synchronous tail on the aggregated pool
FinalizeResult(a, f, pool, seed) ==
  IF Len(pool) = 0
    THEN [status |-> 404, error |-> "No tracks found matching the analysis",
          tracks |-> <<>>, allTracks |-> pool,
          popFiltered |-> <<>>, filteredTracks |-> <<>>, shuffles |-> 0]
    ELSE Staged(a, f, DetectedSchool(a), SchoolSearchTerms(a), pool,
                IF IsClassroomScene(a) THEN EdmFilter(pool) ELSE pool, seed)

(***************************************************************************)
(* The handler.                                                            *)
(***************************************************************************)
\* the variables of the handler before its first statement
\* the fill loop is not being followed
FillIdle ==
  [pc |-> "idle", allTracks |-> <<>>, uniqueTracks |-> <<>>,
   finalArtistCounts |-> EmptyCounts]

\* no request to /api/playlist is running
MatIdle ==
  [pc |-> "idle", tracks |-> <<>>, given |-> FALSE, trackUris |-> <<>>,
   finalTrackUris |-> <<>>, added |-> <<>>, status |-> 0]

\* nobody has logged in and getSpotifyApi has not been called
AuthIdle ==
  [now |-> 0, access |-> -1, accessUntil |-> 0, refresh |-> FALSE,
   hadRefresh |-> FALSE, result |-> "", token |-> -1]

\* there is no second request
NoOther == [pc |-> "none"]

\* none of the parts followed on their own is running
SideIdle ==
  /\ fill = FillIdle
  /\ mat = MatIdle
  /\ auth = AuthIdle
  /\ other = NoOther
  /\ oauth = [pc |-> "none"]
  /\ page = [pc |-> "none"]

Fresh ==
  /\ pc = "start"
  /\ pending = {}
  /\ resolvedIds = <<>>
  /\ artistIds = <<>>
  /\ seedArtists = <<>>
  /\ seedGenres = <<>>
  /\ searchQueries = <<>>
  /\ orderedQueries = <<>>
  /\ qi = 0
  /\ fi = 0
  /\ allTracks = <<>>
  /\ seenTrackIds = {}
  /\ artistCounts = EmptyCounts
  /\ lastCall = NoCall
  /\ gotItems = FALSE
  /\ popFiltered = <<>>
  /\ filteredTracks = <<>>
  /\ status = 0
  /\ resError = ""
  /\ resTracks = <<>>

\* no first request has been answered
NoResponse == [seed |-> 0, again |-> 0, status |-> 0, ids |-> <<>>]

Init ==
  /\ method \in {"POST", "GET"}
  /\ analysis \in Analyses
  /\ popularityFilter \in PopularityFilters
  /\ accessToken \in BOOLEAN
  /\ meStatus \in {200, 401, 403, 500}
  /\ catalog \in Worlds
  \* single failing calls are followed for the default and the mixed policy
  /\ catalog.flaky => popularityFilter \in {"", "mixed"}
  /\ rnd \in Seeds
  /\ faults = 0
  /\ run = 1
  /\ firstIds = {}
  /\ firstResponse = NoResponse
  /\ SideIdle
  /\ Fresh

\* return res.status(code).json({error}) or, for code 200, res.json({tracks})
Respond(code, error, tracks) ==
  /\ status' = code
  /\ resError' = error
  /\ resTracks' = tracks
  /\ pc' = "done"

\* method and body checks, then getSpotifyApi (src/lib/spotify.ts), which
\* throws when the access token cookie is missing
Start ==
  /\ pc = "start"
  /\ IF method # "POST" THEN Respond(405, "Method not allowed", <<>>)
     ELSE IF ~analysis.given
       THEN Respond(400, "Analysis data is required", <<>>)
     ELSE IF ~accessToken
       THEN Respond(401, "Not authenticated. Please login to Spotify first.",
                    <<>>)
     ELSE pc' = "getMe" /\ UNCHANGED resVars
  /\ UNCHANGED <<sideVars, runVars, inputVars, rnd, pending, resolvedIds, artistIds, planVars, qi,
                 fi, poolVars, faults, lastCall, gotItems, stageVars>>

\* the response to a getMe that fails with statusCode code: 401 and 403 are
\* answered as such, any other error is rethrown to the outer catch
MeFailure(code) ==
  IF code = 401
    THEN Respond(401, "Token expired. Please login to Spotify again.", <<>>)
  ELSE IF code = 403
    THEN Respond(403, "Token is invalid. Please login to Spotify again.", <<>>)
  ELSE Respond(500, "Failed to get playlist preview", <<>>)

\* await spotifyApi.getMe(); on success the plan is made and the artist
\* lookups (seedArtists.slice(0, 5)) are issued
GetMe ==
  /\ pc = "getMe"
  /\ IF meStatus = 200
       THEN /\ seedArtists' = SeedArtists(analysis)
            /\ seedGenres' = SeedGenres(analysis)
            /\ pending' = 1..Len(slice(seedArtists', 0, 5))
            /\ pc' = "lookups"
            /\ UNCHANGED resVars
       ELSE /\ MeFailure(meStatus)
            /\ UNCHANGED <<seedArtists, seedGenres, pending>>
  /\ UNCHANGED <<sideVars, runVars, inputVars, rnd, resolvedIds, artistIds, searchQueries,
                 orderedQueries, qi, fi, poolVars, faults, lastCall, gotItems,
                 stageVars>>

\* one artistSearchPromise settles: the id of the best match, or null when the
\* search has no item or throws.  The promises are taken in the order the map
\* created them: Promise.all gathers the results by index, so the order in
\* which the answers arrive reaches no variable of the handler.
Lookup(i) ==
  /\ pc = "lookups"
  /\ i \in pending
  /\ \A k \in pending : i <= k
  /\ \E out \in Outcomes :
       /\ resolvedIds' =
            [k \in DOMAIN resolvedIds \cup {i} |->
               IF k = i
                 THEN (IF out = "ok" /\ catalog.known
                         THEN seedArtists[i] ELSE <<>>)
                 ELSE resolvedIds[k]]
       /\ lastCall' = Logged("searchArtists", seedArtists[i], out)
       /\ CountFault(out)
  /\ pending' = pending \ {i}
  /\ UNCHANGED <<sideVars, runVars, inputVars, rnd, pc, artistIds, planVars, qi, fi, poolVars,
                 gotItems, stageVars, resVars>>

\* resolvedIds.filter(id => id !== null), in the order of seedArtists
ResolvedArtistIds ==
  LET n == Len(slice(seedArtists, 0, 5))
  IN  FilterIdx([i \in 1..n |-> resolvedIds[i]],
                {i \in 1..n : resolvedIds[i] # <<>>})

\* Promise.all has settled: artistIds and searchQueries are built; without
\* seeds the recommendation block is skipped and the queries are ordered
AfterLookups ==
  /\ pc = "lookups"
  /\ pending = {}
  /\ artistIds' = ResolvedArtistIds
  /\ searchQueries' = SearchQueries(analysis, seedArtists)
  /\ IF Len(artistIds') > 0 \/ Len(seedGenres) > 0
       THEN /\ pc' = "recommend"
            /\ UNCHANGED <<orderedQueries, rnd>>
       ELSE /\ orderedQueries' = OrderedQueries(analysis, searchQueries', rnd)
            /\ rnd' = NextSeed(rnd, 1)
            /\ pc' = PcAfterSearch(orderedQueries', 0, allTracks)
  /\ UNCHANGED <<sideVars, runVars, inputVars, pending, resolvedIds, seedArtists, seedGenres, qi,
                 fi, poolVars, faults, lastCall, gotItems, stageVars, resVars>>

\* the recommendation request with the fixed classroom targets laid under the
\* energy, tempo and mood mapping instead of replacing it
recommendationsParamsMapped(a, ids, genres, seed) ==
  LET energy ==
        IF Energy(a) = "high"
          THEN ("target_energy" :> 8) @@ ("min_energy" :> 6)
        ELSE IF Energy(a) = "low"
          THEN ("target_energy" :> 3) @@ ("max_energy" :> 5)
        ELSE "target_energy" :> 5
      tempo ==
        IF Tempo(a) = "fast"
          THEN ("target_tempo" :> 140) @@ ("min_tempo" :> 120)
        ELSE IF Tempo(a) = "slow"
          THEN ("target_tempo" :> 80) @@ ("max_tempo" :> 100)
        ELSE "target_tempo" :> 110
      classroom ==
        IF IsClassroomScene(a)
          THEN ("target_energy" :> 2) @@ ("max_energy" :> 4)
               @@ ("target_tempo" :> 85) @@ ("max_tempo" :> 100)
               @@ ("target_valence" :> 5)
               @@ ("target_danceability" :> 3) @@ ("max_danceability" :> 5)
               @@ ("target_instrumentalness" :> 7)
               @@ ("min_instrumentalness" :> 5)
          ELSE <<>>
  IN  tempo @@ energy @@ classroom
      @@ ("seed_genres" :> slice(randomSort(genres, seed), 0, 2))
      @@ ("limit" :> 50)

\* recommendationsParams as passed to getRecommendations: the keys that the
\* code sets and their values; the fractions (energy, valence, danceability,
\* instrumentalness) are written in tenths, the tempo in BPM
recommendationsParams(a, ids, genres, seed) ==
  LET seeds ==
        (IF Len(ids) > 0
           THEN "seed_artists" :> slice(randomSort(ids, seed), 0, 5)
           ELSE <<>>)
        @@ (IF Len(genres) > 0
              THEN "seed_genres" :>
                     slice(randomSort(genres,
                                      IF Len(ids) > 0 THEN NextSeed(seed, 1)
                                      ELSE seed),
                           0, 2)
              ELSE <<>>)
        @@ ("limit" :> 50)
      classroom ==
        ("target_energy" :> 2) @@ ("max_energy" :> 4)
        @@ ("target_tempo" :> 85) @@ ("max_tempo" :> 100)
        @@ ("target_valence" :> 5)
        @@ ("target_danceability" :> 3) @@ ("max_danceability" :> 5)
        @@ ("target_instrumentalness" :> 7)
        @@ ("min_instrumentalness" :> 5)
      energy ==
        IF Energy(a) = "high"
          THEN ("target_energy" :> 8) @@ ("min_energy" :> 6)
        ELSE IF Energy(a) = "low"
          THEN ("target_energy" :> 3) @@ ("max_energy" :> 5)
        ELSE "target_energy" :> 5
      tempo ==
        IF Tempo(a) = "fast"
          THEN ("target_tempo" :> 140) @@ ("min_tempo" :> 120)
        ELSE IF Tempo(a) = "slow"
          THEN ("target_tempo" :> 80) @@ ("max_tempo" :> 100)
        ELSE "target_tempo" :> 110
      moodLower == toLowerCase(a.mood)
      \* the assignments of the mood branch, which come last
      mood ==
        IF moodLower \in {<<"happy">>, <<"upbeat">>, <<"energetic">>}
          THEN ("target_valence" :> 8) @@ ("target_danceability" :> 7)
        ELSE IF moodLower \in {<<"sad">>, <<"melancholy">>, <<"melancholic">>}
          THEN ("target_valence" :> 3) @@ ("max_valence" :> 5)
        ELSE IF moodLower \in {<<"calm">>, <<"chill">>, <<"peaceful">>}
          THEN ("target_energy" :> 3) @@ ("target_valence" :> 5)
        ELSE IF moodLower \in {<<"romantic">>, <<"dreamy">>}
          THEN ("target_valence" :> 6) @@ ("target_energy" :> 4)
        ELSE <<>>
  IN  IF IsClassroomScene(a) THEN classroom @@ seeds
      ELSE mood @@ tempo @@ energy @@ seeds

\* number of seed shuffles made before the recommendation call
SeedShuffles ==
  (IF Len(artistIds) > 0 THEN 1 ELSE 0) + (IF Len(seedGenres) > 0 THEN 1 ELSE 0)

\* the recommendation call without its try/catch: a failure of the call ends
\* the request in the outer catch and no search directive runs
RecommendUncaught ==
  /\ pc = "recommend"
  /\ \E out \in Outcomes :
       LET seed == NextSeed(rnd, SeedShuffles)
           shuffledTracks == randomSort(RecommendationTracks(catalog), seed)
           p == IF out = "ok" THEN InsertAll(Pool, shuffledTracks) ELSE Pool
           after == IF out = "ok" THEN NextSeed(seed, 1) ELSE seed
       IN  /\ SetPool(p)
           /\ orderedQueries' = OrderedQueries(analysis, searchQueries, after)
           /\ rnd' = NextSeed(after, 1)
           /\ pc' = IF out = "ok"
                      THEN PcAfterSearch(orderedQueries', 0, p.allTracks)
                      ELSE "finalize"
           /\ lastCall' = Logged("getRecommendations", <<>>, out)
           /\ gotItems' = (gotItems \/ (out = "ok" /\ shuffledTracks # <<>>))
           /\ CountFault(out)
  /\ UNCHANGED <<sideVars, runVars, inputVars, pending, resolvedIds, artistIds, seedArtists,
                 seedGenres, searchQueries, qi, fi, stageVars, resVars>>

\* await spotifyApi.getRecommendations(...) inside its try/catch, then the
\* ordering of the search queries
Recommend ==
  /\ pc = "recommend"
  /\ \E out \in Outcomes :
       LET seed == NextSeed(rnd, SeedShuffles)
           shuffledTracks == randomSort(RecommendationTracks(catalog), seed)
           p == IF out = "ok" THEN InsertAll(Pool, shuffledTracks) ELSE Pool
           after == IF out = "ok" THEN NextSeed(seed, 1) ELSE seed
       IN  /\ SetPool(p)
           /\ orderedQueries' = OrderedQueries(analysis, searchQueries, after)
           /\ rnd' = NextSeed(after, 1)
           /\ pc' = PcAfterSearch(orderedQueries', 0, p.allTracks)
           /\ lastCall' =
                Logged("getRecommendations", <<>>, out)
                @@ [params |-> recommendationsParams(analysis, artistIds,
                                                     seedGenres, rnd)]
           /\ gotItems' = (gotItems \/ (out = "ok" /\ shuffledTracks # <<>>))
           /\ CountFault(out)
  /\ UNCHANGED <<sideVars, runVars, inputVars, pending, resolvedIds, artistIds, seedArtists,
                 seedGenres, searchQueries, qi, fi, stageVars, resVars>>

\* one iteration of the directive loop: await spotifyApi.searchTracks(query,
\* {limit: 10}) inside its try/catch
Search ==
  /\ pc = "search"
  /\ LET query == orderedQueries[qi + 1]
     IN  \E out \in Outcomes :
           LET items == SearchAnswer(out, QuerySlot(query), 10)
               p == InsertAll(Pool, items)
           IN  /\ SetPool(p)
               /\ pc' = PcAfterSearch(orderedQueries, qi + 1, p.allTracks)
               /\ lastCall' = Logged("searchTracks", query, out)
               /\ gotItems' = (gotItems \/ items # <<>>)
               /\ CountFault(out)
  /\ qi' = qi + 1
  /\ UNCHANGED <<sideVars, runVars, inputVars, rnd, pending, resolvedIds, artistIds, planVars, fi,
                 stageVars, resVars>>

\* one iteration of the fallback loop: searchTracks(`artist:"..."`,
\* {limit: 20}) inside its try/catch
Fallback ==
  /\ pc = "fallback"
  /\ LET query == <<"artist:">> \o fallbackArtists[fi + 1]
     IN  \E out \in Outcomes :
           LET items == SearchAnswer(out, QuerySlot(query), 20)
               p == InsertFallback(Pool, items)
           IN  /\ SetPool(p)
               /\ pc' = PcAfterFallback(fi + 1, p.allTracks)
               /\ lastCall' = Logged("searchTracks", query, out)
               /\ gotItems' = (gotItems \/ items # <<>>)
               /\ CountFault(out)
  /\ fi' = fi + 1
  /\ UNCHANGED <<sideVars, runVars, inputVars, rnd, pending, resolvedIds, artistIds, planVars, qi,
                 stageVars, resVars>>

\* the synchronous tail: filters, prioritisation, finalizer and response
Finalize ==
  /\ pc = "finalize"
  /\ LET r == FinalizeResult(analysis, popularityFilter, allTracks, rnd)
     IN  /\ allTracks' = r.allTracks
         /\ popFiltered' = r.popFiltered
         /\ filteredTracks' = r.filteredTracks
         /\ rnd' = NextSeed(rnd, r.shuffles)
         /\ Respond(r.status, r.error,
                    IF r.status = 200 THEN r.tracks ELSE <<>>)
  /\ UNCHANGED <<sideVars, runVars, inputVars, pending, resolvedIds, artistIds, planVars, qi, fi,
                 seenTrackIds, artistCounts, faults, lastCall, gotItems>>

Next ==
  \/ Start
  \/ GetMe
  \/ \E i \in 1..5 : Lookup(i)
  \/ AfterLookups
  \/ Recommend
  \/ Search
  \/ Fallback
  \/ Finalize

Spec == Init /\ [][Next]_vars

(***************************************************************************)
(* Two requests with the same body against a catalog whose answers are     *)
(* fixed per query: the handler keeps no state between requests, and       *)
(* Math.random goes on from wherever it stands.                            *)
(***************************************************************************)
\* the catalogs whose answer to a query is the same whenever it is asked
FixedWorlds == {w \in Worlds : w.down = "" /\ ~w.flaky}

\* a catalog with more than 100 unique tracks
LargeWorld ==
  [n |-> 120, step |-> 10, recs |-> 50, known |-> TRUE, nullIds |-> FALSE,
   flaky |-> FALSE, down |-> ""]

\* the ids of a response list, in its order
ListIds(tracks) == [i \in 1..Len(tracks) |-> tracks[i].id]

InitRefresh ==
  /\ method = "POST"
  /\ analysis \in Analyses \ {NoAnalysis}
  /\ popularityFilter \in {"", "mixed"}
  /\ accessToken = TRUE
  /\ meStatus = 200
  /\ catalog \in FixedWorlds \cup {LargeWorld}
  /\ rnd \in Seeds
  /\ faults = 0
  /\ run = 1
  /\ firstIds = {}
  /\ firstResponse = [NoResponse EXCEPT !.seed = rnd]
  /\ SideIdle
  /\ Fresh

\* the first request has been answered; the same request is sent again
Again ==
  /\ pc = "done"
  /\ run = 1
  /\ run' = 2
  /\ firstIds' = seenTrackIds
  /\ rnd' \in Seeds
  /\ firstResponse' = [seed |-> firstResponse.seed, again |-> rnd',
                        status |-> status, ids |-> ListIds(resTracks)]
  /\ pc' = "start"
  /\ pending' = {}
  /\ resolvedIds' = <<>>
  /\ artistIds' = <<>>
  /\ seedArtists' = <<>>
  /\ seedGenres' = <<>>
  /\ searchQueries' = <<>>
  /\ orderedQueries' = <<>>
  /\ qi' = 0
  /\ fi' = 0
  /\ allTracks' = <<>>
  /\ seenTrackIds' = {}
  /\ artistCounts' = EmptyCounts
  /\ lastCall' = NoCall
  /\ gotItems' = FALSE
  /\ popFiltered' = <<>>
  /\ filteredTracks' = <<>>
  /\ status' = 0
  /\ resError' = ""
  /\ resTracks' = <<>>
  /\ UNCHANGED <<sideVars, inputVars, faults>>

NextRefresh == Next \/ Again

SpecRefresh == InitRefresh /\ [][NextRefresh]_vars

(***************************************************************************)
(* The fill loop of the finalizer, one iteration per step.                 *)
(***************************************************************************)
\* no preview request is running
PreviewIdle ==
  /\ method = "POST"
  /\ analysis = NoAnalysis
  /\ popularityFilter = ""
  /\ accessToken = TRUE
  /\ meStatus = 200
  /\ catalog = LargeWorld
  /\ rnd = 0
  /\ faults = 0
  /\ run = 1
  /\ firstIds = {}
  /\ firstResponse = NoResponse
  /\ Fresh

\* a pool the loop is entered with: what the insertion loop keeps of a window
\* of catalog tracks, with or without an id-less item
FillPool(off, n, nullIds) ==
  InsertAll([allTracks |-> <<>>, seenTrackIds |-> {},
             artistCounts |-> EmptyCounts],
            [j \in 1..n |-> Track(off + j)]).allTracks
  \o (IF nullIds THEN <<NullIdTrack>> ELSE <<>>)

\* the loop is entered after the final deduplication pass, which has run on
\* a stretch of the pool, mapped
InitFill ==
  /\ PreviewIdle
  /\ \E off \in {0, 14, 40}, n \in {0, 6, 18, 30}, nullIds \in BOOLEAN,
        a \in {0, 2}, len \in {0, 5, 14, 20} :
        LET pool == FillPool(off, n, nullIds)
            chosen == SelectSeq(slice(pool, a, a + len), LAMBDA t : t.id # 0)
            passed == FinalPass([tracks |-> <<>>, ids |-> {},
                                 counts |-> EmptyCounts],
                                MapTracks(chosen))
        IN  fill = [pc |-> "loop", allTracks |-> pool,
                    uniqueTracks |-> passed.tracks,
                    finalArtistCounts |-> passed.counts]
  /\ mat = MatIdle
  /\ auth = AuthIdle
  /\ other = NoOther
  /\ oauth = [pc |-> "none"]
  /\ page = [pc |-> "none"]

\* one step of while (uniqueTracks.length < targetTrackCount &&
\* allTracks.length > 0): moreTracks is appended; the loop is left when its
\* condition is false or when there is no moreTracks, and the statement after
\* it cuts uniqueTracks to targetTrackCount
FillStep ==
  /\ fill.pc = "loop"
  /\ LET moreTracks ==
           MoreTracks(fill.allTracks, IdsOf(fill.uniqueTracks),
                      fill.finalArtistCounts,
                      targetTrackCount - Len(fill.uniqueTracks))
         left ==
           [fill EXCEPT
              !.pc = "exit",
              !.uniqueTracks = slice(fill.uniqueTracks, 0, targetTrackCount)]
     IN  IF ~(Len(fill.uniqueTracks) < targetTrackCount
              /\ Len(fill.allTracks) > 0)
           THEN fill' = left
         ELSE IF Len(moreTracks) = 0
           THEN fill' = left
         ELSE fill' =
                [fill EXCEPT
                   !.uniqueTracks = fill.uniqueTracks \o MapTracks(moreTracks),
                   !.finalArtistCounts =
                      IncrementAll(fill.finalArtistCounts, moreTracks)]
  /\ UNCHANGED <<previewVars, mat, auth, other, oauth, page>>

\* the loop is sequential code: an iteration that can run does run
SpecFill == InitFill /\ [][FillStep]_vars /\ WF_vars(FillStep)

(***************************************************************************)
(* The playlist materializer (/api/playlist) and the page that calls it.   *)
(* An entry of trackUris is written as a number: i > 0 is the string       *)
(* "spotify:track:i", 0 a falsy entry (null, ""), -1 a value that is not a *)
(* string.                                                                 *)
(***************************************************************************)
\* handleAddToSpotify: tracks.map(track => track.uri).filter(uri => uri)
ClientUris(tracks) ==
  LET uris == [i \in 1..Len(tracks) |-> tracks[i].uri]
  IN  SelectSeq(uris, LAMBDA uri : uri # 0)

\* Array.from(new Set(trackUris.filter(uri => uri && typeof uri ===
\* 'string'))): a Set keeps its entries in the order of their first insertion
UniqueUris(trackUris) ==
  Dedup(SelectSeq(trackUris, LAMBDA uri : uri > 0), {})

\* the list added to the playlist with its first entry left out
tracksToAddFromSecond(finalTrackUris) == slice(finalTrackUris, 1, 100)

\* const tracksToAdd = finalTrackUris.slice(0, 100)
tracksToAdd(finalTrackUris) == slice(finalTrackUris, 0, 100)

\* the request bodies: the page's own (the uris of the tracks it shows), none,
\* the page's list twice over, with entries that are not uris, and lists of
\* 100 and of 101 uris
BodyUris(kind, tracks) ==
  CASE kind = "client" -> ClientUris(tracks)
    [] kind = "absent" -> <<>>
    [] kind = "doubled" -> ClientUris(tracks) \o ClientUris(tracks)
    [] kind = "dirty" -> <<0>> \o ClientUris(tracks) \o <<-1, 0>>
    [] kind = "hundred" -> [i \in 1..100 |-> i]
    [] kind = "long" -> [i \in 1..101 |-> i]

\* the page shows a previewed list: at most 20 mapped tracks of a pool
InitPlaylist ==
  /\ PreviewIdle
  /\ fill = FillIdle
  /\ auth = AuthIdle
  /\ other = NoOther
  /\ oauth = [pc |-> "none"]
  /\ page = [pc |-> "none"]
  /\ \E off \in {0, 14, 40}, n \in {0, 3, 18, 30},
        kind \in {"client", "absent", "doubled", "dirty", "hundred", "long"} :
        LET tracks == MapTracks(slice(FillPool(off, n, FALSE), 0,
                                      targetTrackCount))
        IN  mat = [pc |-> "start", tracks |-> tracks,
                   given |-> (kind # "absent"),
                   trackUris |-> BodyUris(kind, tracks),
                   finalTrackUris |-> <<>>, added |-> <<>>, status |-> 0]

\* return res.status(code).json(...)
MatRespond(code) == [mat EXCEPT !.pc = "done", !.status = code]

\* the handler up to the creation of the playlist: getSpotifyApi and getMe,
\* then finalTrackUris from trackUris, or from a search when there is none
MatStart ==
  /\ mat.pc = "start"
  /\ \E me \in {200, 401, 403}, found \in {<<>>, <<7, 8, 9>>} :
        IF me # 200 THEN mat' = MatRespond(me)
        ELSE LET finalTrackUris ==
                   IF mat.given /\ Len(mat.trackUris) > 0
                     THEN UniqueUris(mat.trackUris)
                     ELSE found
             IN  IF Len(finalTrackUris) = 0 THEN mat' = MatRespond(404)
                 ELSE mat' = [mat EXCEPT !.pc = "create",
                                         !.finalTrackUris = finalTrackUris]
  /\ UNCHANGED <<previewVars, fill, auth, other, oauth, page>>

\* POST /v1/users/{id}/playlists: a 403 is answered as 403, another failure
\* is thrown to the outer catch
MatCreate ==
  /\ mat.pc = "create"
  /\ \E out \in {200, 403, 500} :
        IF out = 200 THEN mat' = [mat EXCEPT !.pc = "add"]
        ELSE mat' = MatRespond(out)
  /\ UNCHANGED <<previewVars, fill, auth, other, oauth, page>>

\* await spotifyApi.addTracksToPlaylist(playlist.id, tracksToAdd), then the
\* cover upload (whose failure is only logged) and the response
MatAdd ==
  /\ mat.pc = "add"
  /\ \E out \in {200, 500} :
        IF out = 200
          THEN mat' = [mat EXCEPT !.pc = "done", !.status = 200,
                                  !.added = tracksToAdd(mat.finalTrackUris)]
          ELSE mat' = MatRespond(out)
  /\ UNCHANGED <<previewVars, fill, auth, other, oauth, page>>

NextPlaylist == MatStart \/ MatCreate \/ MatAdd

SpecPlaylist == InitPlaylist /\ [][NextPlaylist]_vars

(***************************************************************************)
(* The token cookies and getSpotifyApi.  Time is counted in lifetimes of   *)
(* an access token (expires_in seconds).                                   *)
(***************************************************************************)
\* the time up to which a browser session is followed
MaxTime == 4

\* expires_in of an access token, in units of time
TokenLife == 1

InitAuth ==
  /\ PreviewIdle
  /\ fill = FillIdle
  /\ mat = MatIdle
  /\ other = NoOther
  /\ oauth = [pc |-> "none"]
  /\ page = [pc |-> "none"]
  /\ auth = AuthIdle

\* /api/auth/callback: the code is exchanged for tokens and both cookies are
\* set, the access cookie with Max-Age = expires_in * 1000 seconds
Login ==
  /\ auth' = [auth EXCEPT !.access = auth.now,
                          !.accessUntil = auth.now + TokenLife * 1000,
                          !.refresh = TRUE,
                          !.result = "", !.token = -1]
  /\ UNCHANGED <<previewVars, fill, mat, other, oauth, page>>

\* time passes; the browser drops a cookie whose Max-Age has run out
Tick ==
  /\ auth.now < MaxTime
  /\ auth' = [auth EXCEPT !.now = auth.now + 1,
                          !.access = IF auth.now + 1 >= auth.accessUntil
                                       THEN -1 ELSE auth.access,
                          !.result = "", !.token = -1]
  /\ UNCHANGED <<previewVars, fill, mat, other, oauth, page>>

\* the browser no longer holds a cookie: the user has cleared it, or the
\* session in which getSpotifyApi set the access cookie has ended
CookieLost ==
  /\ \/ /\ auth.access # -1
        /\ auth' = [auth EXCEPT !.access = -1, !.result = "", !.token = -1]
     \/ /\ auth.refresh
        /\ auth' = [auth EXCEPT !.refresh = FALSE, !.result = "",
                                !.token = -1]
  /\ UNCHANGED <<previewVars, fill, mat, other, oauth, page>>

\* getSpotifyApi(req, res): the client with the access token of the cookie;
\* without access cookie a refresh, whose answer may be an error; without
\* any cookie an error
getSpotifyApi ==
  /\ IF auth.access = -1 /\ ~auth.refresh
       THEN auth' = [auth EXCEPT !.hadRefresh = auth.refresh,
                                 !.result = "thrown", !.token = -1]
     ELSE IF auth.access # -1
       THEN auth' = [auth EXCEPT !.hadRefresh = auth.refresh,
                                 !.result = "client", !.token = auth.access]
     ELSE \E refreshed \in BOOLEAN :
            IF refreshed
              THEN auth' = [auth EXCEPT !.hadRefresh = TRUE,
                                        !.access = auth.now,
                                        !.accessUntil =
                                           auth.now + TokenLife * 1000,
                                        !.result = "client",
                                        !.token = auth.now]
              ELSE auth' = [auth EXCEPT !.hadRefresh = TRUE,
                                        !.result = "thrown", !.token = -1]
  /\ UNCHANGED <<previewVars, fill, mat, other, oauth, page>>

NextAuth == Login \/ Tick \/ CookieLost \/ getSpotifyApi

SpecAuth == InitAuth /\ [][NextAuth]_vars

(***************************************************************************)
(* Two preview requests in one server.  The handler runs from one await to *)
(* the next without giving way, so the steps of the two requests           *)
(* interleave at the awaits; the variables of the handler are its locals,  *)
(* the catalog and Math.random are shared.                                 *)
(***************************************************************************)
\* how often the two requests take turns
MaxSwitches == 3

\* the locals of the request that is running
Request ==
  [method |-> method,
   analysis |-> analysis,
   popularityFilter |-> popularityFilter,
   accessToken |-> accessToken,
   meStatus |-> meStatus,
   pc |-> pc,
   pending |-> pending,
   resolvedIds |-> resolvedIds,
   artistIds |-> artistIds,
   seedArtists |-> seedArtists,
   seedGenres |-> seedGenres,
   searchQueries |-> searchQueries,
   orderedQueries |-> orderedQueries,
   qi |-> qi,
   fi |-> fi,
   allTracks |-> allTracks,
   seenTrackIds |-> seenTrackIds,
   artistCounts |-> artistCounts,
   lastCall |-> lastCall,
   gotItems |-> gotItems,
   popFiltered |-> popFiltered,
   filteredTracks |-> filteredTracks,
   status |-> status,
   resError |-> resError,
   resTracks |-> resTracks]

InitConcurrent ==
  /\ method = "POST"
  /\ analysis \in {AnJazz, AnDuke}
  /\ popularityFilter = ""
  /\ accessToken = TRUE
  /\ meStatus = 200
  /\ catalog \in {w \in FixedWorlds : w.n \in {12, 34}}
  /\ rnd \in Seeds
  /\ faults = 0
  /\ run = 1
  /\ firstIds = {}
  /\ firstResponse = NoResponse
  /\ Fresh
  /\ fill = FillIdle
  /\ mat = MatIdle
  /\ auth = AuthIdle
  /\ oauth = [pc |-> "none"]
  /\ page = [pc |-> "none"]
  /\ \E a \in {AnPop, AnNoGenres} :
       other = [Request EXCEPT !.analysis = a] @@ [switches |-> 0]

\* the two requests take turns with allTracks, seenTrackIds and artistCounts
\* kept in one place for both
SwitchSharingPool ==
  /\ other.pc \notin {"none", "done"}
  /\ other.switches < MaxSwitches
  /\ other' = Request @@ [switches |-> other.switches + 1]
  /\ method' = other.method
  /\ analysis' = other.analysis
  /\ popularityFilter' = other.popularityFilter
  /\ accessToken' = other.accessToken
  /\ meStatus' = other.meStatus
  /\ pc' = other.pc
  /\ pending' = other.pending
  /\ resolvedIds' = other.resolvedIds
  /\ artistIds' = other.artistIds
  /\ seedArtists' = other.seedArtists
  /\ seedGenres' = other.seedGenres
  /\ searchQueries' = other.searchQueries
  /\ orderedQueries' = other.orderedQueries
  /\ qi' = other.qi
  /\ fi' = other.fi
  /\ lastCall' = other.lastCall
  /\ gotItems' = other.gotItems
  /\ popFiltered' = other.popFiltered
  /\ filteredTracks' = other.filteredTracks
  /\ status' = other.status
  /\ resError' = other.resError
  /\ resTracks' = other.resTracks
  /\ UNCHANGED <<catalog, rnd, faults, runVars, fill, mat, auth, oauth, page,
                 poolVars>>

\* the running request waits at its await (or has answered) and the other
\* request goes on from where it waited
Switch ==
  /\ other.pc \notin {"none", "done"}
  /\ other.switches < MaxSwitches
  /\ other' = Request @@ [switches |-> other.switches + 1]
  /\ method' = other.method
  /\ analysis' = other.analysis
  /\ popularityFilter' = other.popularityFilter
  /\ accessToken' = other.accessToken
  /\ meStatus' = other.meStatus
  /\ pc' = other.pc
  /\ pending' = other.pending
  /\ resolvedIds' = other.resolvedIds
  /\ artistIds' = other.artistIds
  /\ seedArtists' = other.seedArtists
  /\ seedGenres' = other.seedGenres
  /\ searchQueries' = other.searchQueries
  /\ orderedQueries' = other.orderedQueries
  /\ qi' = other.qi
  /\ fi' = other.fi
  /\ allTracks' = other.allTracks
  /\ seenTrackIds' = other.seenTrackIds
  /\ artistCounts' = other.artistCounts
  /\ lastCall' = other.lastCall
  /\ gotItems' = other.gotItems
  /\ popFiltered' = other.popFiltered
  /\ filteredTracks' = other.filteredTracks
  /\ status' = other.status
  /\ resError' = other.resError
  /\ resTracks' = other.resTracks
  /\ UNCHANGED <<catalog, rnd, faults, runVars, fill, mat, auth, oauth, page>>

NextConcurrent == Next \/ Switch

SpecConcurrent == InitConcurrent /\ [][NextConcurrent]_vars

(***************************************************************************)
(* The login flow: /api/auth/login and /api/auth/callback answer a browser *)
(* that keeps the cookies.  A cookie value 0 is an absent cookie, and a    *)
(* Set-Cookie entry with value 0 is one with Max-Age=0.  res.setHeader     *)
(* replaces the value that the header had.                                 *)
(***************************************************************************)
InitOAuth ==
  /\ PreviewIdle
  /\ fill = FillIdle
  /\ mat = MatIdle
  /\ auth = AuthIdle
  /\ other = NoOther
  /\ page = [pc |-> "none"]
  /\ \E tokens \in {0, 1} :
       oauth = [pc |-> "browser",
                cookies |-> [spotify_auth_state |-> 0,
                             spotify_access_token |-> tokens,
                             spotify_refresh_token |-> tokens],
                query |-> <<>>, stored |-> 0, status |-> 0,
                setCookie |-> <<>>, location |-> "", exchanged |-> FALSE]

\* the browser takes the response: it keeps or drops the cookies that the
\* Set-Cookie header names
Answered(handler, query, statusCode, setCookie, location, exchanged) ==
  oauth' = [pc |-> handler,
            cookies |-> [name \in DOMAIN oauth.cookies |->
                           IF name \in DOMAIN setCookie THEN setCookie[name]
                           ELSE oauth.cookies[name]],
            query |-> query, stored |-> oauth.cookies.spotify_auth_state,
            status |-> statusCode, setCookie |-> setCookie,
            location |-> location, exchanged |-> exchanged]

\* GET /api/auth/login
LoginHandler ==
  /\ oauth.pc # "none"
  /\ \E configured \in BOOLEAN, mismatch \in BOOLEAN, force \in BOOLEAN,
        state \in 1..2 :
       LET query == [force |-> force]
           \* res.setHeader('Set-Cookie', ...) at lines 80, 87 and 129
           cleared == "spotify_auth_state" :> 0
           forced == IF force
                       THEN ("spotify_access_token" :> 0)
                            @@ ("spotify_refresh_token" :> 0)
                       ELSE cleared
           header == "spotify_auth_state" :> state
       IN  IF ~configured
             THEN Answered("login", query, 500, <<>>, "", FALSE)
           ELSE IF mismatch
             THEN Answered("login", query, 302, <<>>, "login", FALSE)
           ELSE Answered("login", query, 302, header, "authorize", FALSE)
  /\ UNCHANGED <<previewVars, fill, mat, auth, other, page>>

\* the state checks of the callback without the comparison with the cookie
ValidatedWithoutCompare(state, storedState) ==
  /\ state \notin {0, -1}
  /\ storedState # 0

\* the state checks of the callback: state is a non-empty string (0: missing
\* or empty, -1: an array), the cookie is there, and the two are equal
Validated(state, storedState) ==
  /\ state \notin {0, -1}
  /\ storedState # 0
  /\ state = storedState

\* GET /api/auth/callback
CallbackHandler ==
  /\ oauth.pc # "none"
  /\ \E error \in BOOLEAN, state \in {0, 1, 2, -1}, code \in {0, 1, -1},
        configured \in BOOLEAN, grant \in {"ok", "fail"},
        verify \in {"production", "ok", "fail"} :
       LET query == [error |-> error, state |-> state, code |-> code]
           storedState == oauth.cookies.spotify_auth_state
           \* clearStateCookie()
           cleared == "spotify_auth_state" :> 0
           \* res.setHeader('Set-Cookie', [accessTokenCookie,
           \* refreshTokenCookie])
           tokens == ("spotify_access_token" :> 2)
                     @@ ("spotify_refresh_token" :> 2)
       IN  IF error
             THEN Answered("callback", query, 302, cleared, "/?error", FALSE)
           ELSE IF ~Validated(state, storedState)
             THEN Answered("callback", query, 400, cleared, "", FALSE)
           ELSE IF code # 1
             THEN Answered("callback", query, 400, cleared, "", FALSE)
           ELSE IF ~configured
             THEN Answered("callback", query, 500, cleared, "", FALSE)
           ELSE IF grant = "fail"
             THEN Answered("callback", query, 302, cleared, "/?error", TRUE)
           ELSE IF verify = "fail"
             THEN Answered("callback", query, 302, tokens, "/?error", TRUE)
           ELSE Answered("callback", query, 302, tokens, "/upload", TRUE)
  /\ UNCHANGED <<previewVars, fill, mat, auth, other, page>>

SpecOAuth == InitOAuth /\ [][LoginHandler \/ CallbackHandler]_vars

(***************************************************************************)
(* The playlist page.  A fetched list is written <<filter, k>> for the     *)
(* k-th fetch of the page, <<>> is the empty list, and a filter without    *)
(* cache entry has the entry <<>> (the page treats both alike).  The       *)
(* toggle and the refresh button are disabled while isLoading.             *)
(***************************************************************************)
\* number of preview fetches that the page makes
MaxFetches == 4

\* the page after its effect has run with an analysis in sessionStorage: the
\* fetch for the default filter is in flight
InitPage ==
  /\ PreviewIdle
  /\ fill = FillIdle
  /\ mat = MatIdle
  /\ auth = AuthIdle
  /\ other = NoOther
  /\ oauth = [pc |-> "none"]
  /\ page = [pc |-> "page", isLoading |-> TRUE, activeFilter |-> "mainstream",
             popularityFilter |-> "mainstream", tracks |-> <<>>,
             tracksCache |-> [f \in {"mainstream", "mixed", "indie"} |-> <<>>],
             error |-> FALSE, fetches |-> 1]

\* fetchPlaylistPreview from the answer of /api/playlist-preview on: a list, an
\* empty list, a 401/403 (the page leaves for the login), or an error
FetchDone ==
  /\ page.pc = "page"
  /\ page.isLoading
  /\ \E answer \in {"tracks", "empty", "auth", "error"} :
       LET fetchedTracks == IF answer = "tracks"
                              THEN <<page.activeFilter, page.fetches>>
                              ELSE <<>>
       IN  page' =
             IF answer \in {"tracks", "empty"}
               THEN [page EXCEPT !.isLoading = FALSE,
                                 !.tracks = fetchedTracks,
                                 !.tracksCache[page.activeFilter] =
                                   fetchedTracks]
             ELSE IF answer = "auth"
               THEN [page EXCEPT !.isLoading = FALSE, !.pc = "leaving"]
             ELSE [page EXCEPT !.isLoading = FALSE, !.error = TRUE]
  /\ UNCHANGED <<previewVars, fill, mat, auth, other, oauth>>

\* ToggleGroup onValueChange for another filter
Toggle ==
  /\ page.pc = "page"
  /\ ~page.isLoading
  /\ \E value \in {"mainstream", "mixed", "indie"} \ {page.popularityFilter} :
       /\ Len(page.tracksCache[value]) > 0 \/ page.fetches < MaxFetches
       /\ page' =
            IF Len(page.tracksCache[value]) > 0
              THEN [page EXCEPT !.popularityFilter = value,
                                !.tracks = page.tracksCache[value]]
              ELSE [page EXCEPT !.popularityFilter = value,
                                !.activeFilter = value, !.isLoading = TRUE,
                                !.error = FALSE, !.fetches = @ + 1]
  /\ UNCHANGED <<previewVars, fill, mat, auth, other, oauth>>

\* handleRefreshPlaylist
Refresh ==
  /\ page.pc = "page"
  /\ ~page.isLoading
  /\ page.fetches < MaxFetches
  /\ page' = [page EXCEPT !.activeFilter = page.popularityFilter,
                          !.isLoading = TRUE, !.error = FALSE,
                          !.fetches = @ + 1]
  /\ UNCHANGED <<previewVars, fill, mat, auth, other, oauth>>

SpecPage == InitPage /\ [][FetchDone \/ Toggle \/ Refresh]_vars

(***************************************************************************)
(* The recommendation request for every combination of energy, tempo and   *)
(* mood, for two genre lists, outside and inside a classroom scene.        *)
(***************************************************************************)
ParamAnalyses ==
  {[NoAnalysis EXCEPT !.given = TRUE, !.genresGiven = TRUE, !.genres = g,
      !.energy = e, !.tempo = t, !.mood = m, !.description = d] :
     g \in {<< <<"rock">>, <<"pop">> >>, << <<"jazz">> >>},
     e \in {"", "low", "high"},
     t \in {"slow", "moderate", "fast"},
     m \in {<<>>, <<"happy">>, <<"sad">>, <<"Calm">>, <<"romantic">>,
            <<"angry">>},
     d \in {<<>>, <<"a", "student", "at", "a", "desk">>}}

InitParams ==
  /\ method = "POST"
  /\ analysis \in ParamAnalyses
  /\ popularityFilter = ""
  /\ accessToken = TRUE
  /\ meStatus = 200
  /\ catalog \in {w \in FixedWorlds : w.n = 12}
  /\ rnd \in Seeds
  /\ faults = 0
  /\ run = 1
  /\ firstIds = {}
  /\ firstResponse = NoResponse
  /\ SideIdle
  /\ Fresh

SpecParams == InitParams /\ [][Next]_vars

(***************************************************************************)
(* Properties of the response list.                                        *)
(***************************************************************************)
\* the catalog track a response entry was mapped from
Source(entry) == Track(entry.id)

\* how many entries of a response list have the primary artist name
OnArtist(tracks, name) ==
  Cardinality({i \in 1..Len(tracks) : PrimaryArtist(Source(tracks[i])) = name})

\* the request passes the method, body and token checks
Admitted ==
  method = "POST" /\ analysis.given /\ accessToken /\ meStatus = 200

\* C1: the returned track list contains no two entries with the same track
\* id, for every catalog behaviour, analysis and popularity policy.
C1_UniqueIds ==
  \A i, j \in 1..Len(resTracks) :
     i # j => resTracks[i].id # resTracks[j].id

\* a full list was returned although the filtered list was shorter than the
\* target, so that the backfills drew from a pool that holds the chosen tracks
C1_Witness ==
  /\ status = 200
  /\ Len(resTracks) = targetTrackCount
  /\ Len(filteredTracks) < targetTrackCount
  /\ IdsOf(resTracks) \subseteq IdsOf(allTracks)

\* C2: in every returned list no primary artist (the first artist of a track)
\* is on more than maxTracksPerArtist tracks, backfilled tracks included.
C2_ArtistCap ==
  \A i \in 1..Len(resTracks) :
     PrimaryArtist(Source(resTracks[i])) # <<>>
       => OnArtist(resTracks, PrimaryArtist(Source(resTracks[i])))
            <= maxTracksPerArtist

\* a returned list that needed a backfill and holds an artist at the cap of
\* whom the catalog has a further track
C2_Witness ==
  /\ status = 200
  /\ Len(filteredTracks) < targetTrackCount
  /\ \E i \in 1..Len(resTracks) :
        /\ OnArtist(resTracks, PrimaryArtist(Source(resTracks[i])))
             = maxTracksPerArtist
        /\ \E t \in 1..catalog.n :
              /\ t \notin IdsOf(resTracks)
              /\ PrimaryArtist(Track(t)) = PrimaryArtist(Source(resTracks[i]))

\* the number of tracks of a pool that a list can hold under the cap: those
\* with an id, counted once, at most maxTracksPerArtist of a primary artist
CapEligibleCount(tracks) ==
  LET unique == UniqueById(tracks, {})
  IN  Cardinality(
        {i \in 1..Len(unique) :
           \/ PrimaryArtist(unique[i]) = <<>>
           \/ Cardinality({j \in 1..(i - 1) :
                             PrimaryArtist(unique[j]) = PrimaryArtist(unique[i])})
                < maxTracksPerArtist})

\* C3 (as stated): the returned list never has more than targetTrackCount
\* tracks, it has fewer only when the pool holds fewer unique, cap-eligible
\* tracks, and a catalog of 12 unique tracks yields exactly 12 tracks.
C3_FullUnlessPoolShort ==
  status = 200 =>
    /\ Len(resTracks) <= targetTrackCount
    /\ Len(resTracks) < targetTrackCount
         => CapEligibleCount(allTracks) < targetTrackCount
    /\ (catalog.n = 12 /\ Len(allTracks) = 12) => Len(resTracks) = 12

\* an unused track of the pool without the mood word whose artist is under
\* the cap once the entry at position i is left out
HasSubstitute(i) ==
  \E k \in 1..Len(allTracks) :
     /\ allTracks[k].id # 0
     /\ allTracks[k].id \notin IdsOf(resTracks)
     /\ ~HasMoodWord(PrimaryMood(analysis), allTracks[k])
     /\ \/ PrimaryArtist(allTracks[k]) = <<>>
        \/ Cardinality({j \in 1..Len(resTracks) :
                          /\ j # i
                          /\ PrimaryArtist(Source(resTracks[j]))
                               = PrimaryArtist(allTracks[k])})
             < maxTracksPerArtist

\* C4 (as stated): no returned track has the mood word in its title as a
\* whole word, unless leaving it out would give fewer than targetTrackCount
\* tracks and the pool has no unused, cap-eligible track without the mood
\* word to take its place.
C4_MoodWordOnlyWithoutSubstitute ==
  status = 200 =>
    \A i \in 1..Len(resTracks) :
       HasMoodWord(PrimaryMood(analysis), resTracks[i])
         => (Len(resTracks) - 1 < targetTrackCount /\ ~HasSubstitute(i))

\* the popularity values of a list never rise (fall) along the list
NonIncreasing(tracks) ==
  \A i \in 1..(Len(tracks) - 1) : Pop(tracks[i]) >= Pop(tracks[i + 1])

NonDecreasing(tracks) ==
  \A i \in 1..(Len(tracks) - 1) : Pop(tracks[i]) <= Pop(tracks[i + 1])

\* the catalog tracks of the returned list, in list order
ReturnedSources == [i \in 1..Len(resTracks) |-> Source(resTracks[i])]

PoolSchoolTracks ==
  SchoolTracks(analysis, DetectedSchool(analysis), SchoolSearchTerms(analysis),
               allTracks)

PinnedOrder ==
  SchoolPrioritize(analysis, DetectedSchool(analysis),
                   SchoolSearchTerms(analysis), popFiltered)

\* C6 (as stated): when a school was matched and the pool holds k school
\* related tracks, the first min(5, k) entries of the returned list are school
\* related tracks in the order they were pinned.
C6_PinnedEntriesLead ==
  (status = 200 /\ DetectedSchool(analysis) # <<>>) =>
    \A i \in 1..Min(5, Len(PoolSchoolTracks)) :
       /\ i <= Len(resTracks)
       /\ i <= Len(PinnedOrder)
       /\ isSchoolRelatedTrack(analysis, DetectedSchool(analysis),
                               SchoolSearchTerms(analysis),
                               Source(resTracks[i]))
       /\ resTracks[i].id = PinnedOrder[i].id

\* C7 (as stated): with catalog answers fixed per query, two aggregation runs
\* over the same analysis gather pools with the same set of track ids,
\* whatever the shuffles of the two runs draw.
C7_SamePoolIds ==
  (run = 2 /\ pc = "done") => seenTrackIds = firstIds

\* a catalog call fails in this step
CallFails == faults' # faults

\* the position the handler takes after a call that contributed nothing
AfterEmptyAnswer ==
  IF pc = "lookups" THEN "lookups"
  ELSE IF pc = "recommend" THEN PcAfterSearch(orderedQueries', 0, allTracks)
  ELSE IF pc = "search" THEN PcAfterSearch(orderedQueries, qi + 1, allTracks)
  ELSE PcAfterFallback(fi + 1, allTracks)

C9_NoCandidatesIs404 ==
  (pc = "done" /\ Admitted /\ ~gotItems) =>
    /\ status = 404
    /\ resError = "No tracks found matching the analysis"

\* a request all of whose track calls failed or came back empty has ended
C9_Witness ==
  /\ pc = "done"
  /\ Admitted
  /\ ~gotItems
  /\ lastCall.api = "searchTracks"
  /\ status = 404

\* C10 (as stated): an authentication failure of a catalog call made during
\* aggregation reaches the caller as an authentication error and is not
\* absorbed as zero results.
C10_AuthFailurePropagated ==
  (pc = "done" /\ lastCall.out = "auth") => status \in {401, 403}

\* C11 (as stated): the genre list used by the pipeline is never empty: for
\* every analysis (genres missing, null or an empty array) the default
\* ["pop"] stands in before the queries and the recommendation seeds are
\* built.
C11_GenresNeverEmpty ==
  (Admitted /\ pc \notin {"start", "getMe"}) => Genres(analysis) # <<>>

\* C16: in each preview request the recommendation call is issued at most
\* once, after all artist-id lookups have resolved and before any track
\* search call; when it fails its error is swallowed (pool and response
\* untouched) and the search directives still run.
C16_RecommendationOnceBeforeSearches ==
  [][/\ (pc' = "recommend" /\ pc # "recommend")
          => (pc = "lookups" /\ pending = {})
     /\ (lastCall'.api = "getRecommendations" /\ lastCall.api # "getRecommendations")
          => pc = "recommend"
     /\ pc = "recommend"
          => /\ pc' \in {"search", "fallback", "finalize"}
             /\ lastCall'.api = "getRecommendations"
             /\ lastCall.api \in {"", "searchArtists"}
             /\ qi = 0 /\ fi = 0
     /\ pc \in {"search", "fallback", "finalize", "done"}
          => pc' \notin {"lookups", "recommend"}
     /\ (pc = "recommend" /\ CallFails)
          => /\ allTracks' = allTracks
             /\ status' = status
             /\ (Len(orderedQueries') > 0 => pc' = "search")]_vars

\* the recommendation call has failed after the lookups resolved artist ids,
\* and the directive loop is about to run
C16_Witness ==
  /\ Admitted
  /\ pc = "search"
  /\ qi = 0
  /\ Len(artistIds) > 0
  /\ lastCall.api = "getRecommendations"
  /\ lastCall.out # "ok"

\* C17: in the directive loop no further search call is issued once the
\* pool has reached 3 x targetTrackCount = 60 tracks: every searchTracks call
\* of that loop starts with a pool of fewer than 60 tracks.
C17_DirectiveSearchBelowSixty ==
  [][qi' = qi + 1
       => /\ Len(allTracks) < targetTrackCount * 3
          /\ lastCall'.api = "searchTracks"
          /\ lastCall'.size < targetTrackCount * 3]_vars

\* the directive loop has stopped at a pool of 60 or more with queries left
C17_Witness ==
  /\ Admitted
  /\ pc = "finalize"
  /\ qi > 0
  /\ qi < Len(slice(orderedQueries, 0, 15))
  /\ fi = 0
  /\ Len(allTracks) >= targetTrackCount * 3
  /\ lastCall.api = "searchTracks"
  /\ lastCall.size < targetTrackCount * 3

\* C19 (as stated): the number of track searches executed against the catalog
\* in one preview request never exceeds 25, whatever the number of artists,
\* keywords and landmark terms in the analysis.
C19_AtMostTwentyFiveSearches ==
  qi + fi <= 25

\* C19 (amended): one preview request executes at most 15 directive searches
\* and at most 20 fallback searches, 35 track searches in all, whatever the
\* number of artists, keywords and landmark terms in the analysis.
C19_AtMostThirtyFiveSearches ==
  /\ qi <= 15
  /\ fi <= 20
  /\ fi <= Len(fallbackArtists)
  /\ Len(seedArtists) <= 25

\* a request that has run 15 directive searches and 20 fallback searches
C19_Witness ==
  /\ Admitted
  /\ pc = "finalize"
  /\ qi = 15
  /\ fi = 20
  /\ Len(analysis.artists) > 25

\* C18 (as stated): whenever the pool holds fewer than 2 x targetTrackCount
\* = 40 tracks after all directives have run, a backfill of fallback queries
\* is executed, and the backfill stops as soon as the pool reaches 40 or at
\* its iteration ceiling.
C18_BackfillWheneverPoolShort ==
  [][/\ (pc \in {"lookups", "recommend", "search"} /\ pc' = "finalize")
          => Len(allTracks') >= targetTrackCount * 2
     /\ pc = "fallback"
          => /\ fi' = fi + 1
             /\ pc' \in {"fallback", "finalize"}
             /\ pc' = "fallback"
                  => /\ Len(allTracks') < targetTrackCount * 2
                     /\ fi' < 20]_vars

\* C13 (as stated): for a fixed analysis and policy and a catalog with at
\* least 100 available unique tracks, two consecutive preview calls return
\* lists that differ in at least track order.
C13_ConsecutiveListsDiffer ==
  (/\ run = 2
   /\ pc = "done"
   /\ catalog.n >= 100
   /\ firstResponse.status = 200
   /\ status = 200)
    => ListIds(resTracks) # firstResponse.ids

\* C20: the finalizer's backfill-to-target loop terminates for every pool:
\* each iteration either appends at least one track not yet in the list or
\* exits, and the loop ends with at most 20 tracks.
C20_FillLoopTerminates ==
  /\ [][fill.pc = "loop"
          => \/ fill'.pc = "exit"
             \/ /\ Len(fill'.uniqueTracks) > Len(fill.uniqueTracks)
                /\ \A i \in 1..Len(fill'.uniqueTracks) :
                      IF i <= Len(fill.uniqueTracks)
                        THEN fill'.uniqueTracks[i] = fill.uniqueTracks[i]
                        ELSE fill'.uniqueTracks[i].id
                               \notin IdsOf(fill.uniqueTracks)]_vars
  /\ [](Len(fill.uniqueTracks) <= targetTrackCount)
  /\ <>(fill.pc = "exit")

\* the loop has appended tracks to a list that was short and has been left
\* with a list that is still short: the pool had no further track to give
C20_Witness ==
  /\ fill.pc = "exit"
  /\ Len(fill.uniqueTracks) > 5
  /\ Len(fill.uniqueTracks) < targetTrackCount
  /\ Len(fill.allTracks) > Len(fill.uniqueTracks)

\* C12: when the client supplies the previewed track URIs, the playlist
\* materializer adds exactly that track set to the created playlist, in the
\* same order as previewed: no track is substituted, dropped (from a list of
\* up to 100) or reordered.
C12_AddsPreviewedTracks ==
  /\ (/\ mat.pc = "done" /\ mat.status = 200
      /\ mat.given /\ Len(mat.trackUris) > 0
      /\ mat.trackUris = ClientUris(mat.tracks))
       => mat.added = [i \in 1..Len(mat.tracks) |-> mat.tracks[i].uri]
  /\ (/\ mat.pc = "done" /\ mat.status = 200
      /\ mat.given /\ Len(mat.trackUris) \in 1..100
      /\ \A i \in 1..Len(mat.trackUris) :
            /\ mat.trackUris[i] > 0
            /\ \A j \in 1..(i - 1) : mat.trackUris[j] # mat.trackUris[i])
       => mat.added = mat.trackUris

\* a playlist has been filled from the 20 uris of a previewed list
C12_Witness ==
  /\ mat.pc = "done"
  /\ mat.status = 200
  /\ mat.given
  /\ Len(mat.tracks) = targetTrackCount
  /\ mat.trackUris = ClientUris(mat.tracks)
  /\ Len(mat.added) = targetTrackCount

\* C15 (as stated): getSpotifyApi refreshes the access token when it is
\* expired: whenever a refresh-token cookie is present, the client it returns
\* carries an access token that has not expired.
C15_ReturnedTokenNotExpired ==
  (auth.result = "client" /\ auth.hadRefresh)
    => auth.now < auth.token + TokenLife

\* the ids the catalog has answered to the calls request r has made so far
OwnIds(r) ==
  LET Ids(items) == {items[i].id : i \in 1..Len(items)} \ {0}
      recommended ==
        IF /\ r.pc \in {"search", "fallback", "finalize", "done"}
           /\ (Len(r.artistIds) > 0 \/ Len(r.seedGenres) > 0)
          THEN Ids(RecommendationTracks(catalog)) ELSE {}
      searched ==
        UNION {Ids(SearchItems(catalog,
                               SlotOf(r.searchQueries, r.orderedQueries[k]),
                               10)) : k \in 1..r.qi}
      fallen ==
        UNION {Ids(SearchItems(catalog,
                               SlotOf(r.searchQueries,
                                      <<"artist:">>
                                      \o slice(r.seedArtists, 5, 25)[k]),
                               20)) : k \in 1..r.fi}
  IN  recommended \cup searched \cup fallen

\* pool, seen-id set and artist counts of request r hold what r's own calls
\* brought and nothing else, and r answers from its own pool
LocalToRequest(r) ==
  /\ r.seenTrackIds \subseteq OwnIds(r)
  /\ IdsOf(r.allTracks) \subseteq r.seenTrackIds
  /\ r.pc # "done"
       => /\ IdsOf(r.allTracks) = r.seenTrackIds
          /\ \A name \in DOMAIN r.artistCounts :
                r.artistCounts[name] =
                  Cardinality({i \in 1..Len(r.allTracks) :
                                 PrimaryArtist(r.allTracks[i]) = name})
  /\ \A i \in 1..Len(r.resTracks) : r.resTracks[i].id \in r.seenTrackIds

\* C14: two preview requests processed concurrently (interleaved at every
\* await on a catalog call) do not interfere: the pool, the seen-id set and
\* the artist counts are local to each request, so each request's pool and
\* list hold only what its own calls brought, as when it runs alone.
C14_RequestsDoNotInterfere ==
  /\ LocalToRequest(Request)
  /\ other.pc # "none" => LocalToRequest(other)

\* two requests that took turns three times have both answered with a list,
\* from pools that differ
C14_Witness ==
  /\ other.pc = "done"
  /\ pc = "done"
  /\ other.switches = MaxSwitches
  /\ status = 200
  /\ other.status = 200
  /\ seenTrackIds # other.seenTrackIds

\* the tracks of a list whose popularity (absent: 0) lies in lo..hi
InBand(tracks, lo, hi) ==
  {i \in 1..Len(tracks) : Pop(tracks[i]) >= lo /\ Pop(tracks[i]) <= hi}

\* the list holds exactly the tracks of the pool at the given positions
HoldsExactly(list, tracks, positions) ==
  /\ Len(list) = Cardinality(positions)
  /\ IdsOf(list) = {tracks[i].id : i \in positions}

\* C21: the popularity filter stage uses the relaxed threshold only when the
\* strict set is too small: mainstream yields exactly the pool tracks with
\* popularity >= 50 if there are at least 20 of them, otherwise exactly those
\* with popularity >= 40; indie exactly those with popularity < 60 if at
\* least 20, otherwise those < 70; an absent popularity counts as 0.
C21_RelaxedOnlyWhenStrictTooSmall ==
  pc = "done" =>
    /\ Filter(popularityFilter) = "mainstream" =>
         HoldsExactly(popFiltered, allTracks,
                      IF Cardinality(InBand(allTracks, 50, 100))
                           >= targetTrackCount
                        THEN InBand(allTracks, 50, 100)
                        ELSE InBand(allTracks, 40, 100))
    /\ Filter(popularityFilter) = "indie" =>
         HoldsExactly(popFiltered, allTracks,
                      IF Cardinality(InBand(allTracks, 0, 59))
                           >= targetTrackCount
                        THEN InBand(allTracks, 0, 59)
                        ELSE InBand(allTracks, 0, 69))

\* an indie request whose pool holds twenty tracks below 60, a track from 60
\* to 69 that the stage left out, and a track without popularity that it kept
C21_Witness ==
  /\ pc = "done"
  /\ Filter(popularityFilter) = "indie"
  /\ Cardinality(InBand(allTracks, 0, 59)) >= targetTrackCount
  /\ InBand(allTracks, 60, 69) # {}
  /\ \E i \in 1..Len(popFiltered) : popFiltered[i].popularity = NoPopularity

\* a mainstream request whose strict set is too small and whose stage handed
\* on the tracks from 40 to 49 as well
C21_WitnessRelaxed ==
  /\ pc = "done"
  /\ Filter(popularityFilter) = "mainstream"
  /\ Cardinality(InBand(allTracks, 50, 100)) < targetTrackCount
  /\ \E i \in 1..Len(popFiltered) : Pop(popFiltered[i]) < 50

\* C22: for the mixed policy the filter stage draws min(7, |tier >= 70|),
\* min(7, |tier 40-69|) and min(6, |tier < 40|) tracks, then backfills any
\* shortfall from the leftover pool tracks, so its result holds exactly
\* min(20, pool size) distinct tracks of the pool and, when every tier can
\* fill its quota, exactly 7/7/6 tracks per tier.
C22_MixedQuotasAndBackfill ==
  (pc = "done" /\ Filter(popularityFilter) = "mixed") =>
    LET high == Cardinality(InBand(allTracks, 70, 100))
        med == Cardinality(InBand(allTracks, 40, 69))
        low == Cardinality(InBand(allTracks, 0, 39))
        gotHigh == Cardinality(InBand(popFiltered, 70, 100))
        gotMed == Cardinality(InBand(popFiltered, 40, 69))
        gotLow == Cardinality(InBand(popFiltered, 0, 39))
    IN  /\ Len(popFiltered) = Min(20, Len(allTracks))
        /\ Cardinality(IdsOf(popFiltered)) = Len(popFiltered)
        /\ IdsOf(popFiltered) \subseteq IdsOf(allTracks)
        /\ gotHigh >= Min(7, high)
        /\ gotMed >= Min(7, med)
        /\ gotLow >= Min(6, low)
        /\ (high >= 7 /\ med >= 7 /\ low >= 6)
             => (gotHigh = 7 /\ gotMed = 7 /\ gotLow = 6)

\* a mixed request with a tier that is short of its quota, in which the stage
\* handed on more tracks than the three draws gave: it filled up from the
\* leftover tracks of the other tiers
C22_Witness ==
  /\ pc = "done"
  /\ Filter(popularityFilter) = "mixed"
  /\ Len(allTracks) >= targetTrackCount
  /\ Len(popFiltered) >
       Min(7, Cardinality(InBand(allTracks, 70, 100)))
       + Min(7, Cardinality(InBand(allTracks, 40, 69)))
       + Min(6, Cardinality(InBand(allTracks, 0, 39)))

\* a mixed request in which every tier filled its quota from a larger tier
C22_WitnessQuotas ==
  /\ pc = "done"
  /\ Filter(popularityFilter) = "mixed"
  /\ Cardinality(InBand(allTracks, 70, 100)) > 7
  /\ Cardinality(InBand(allTracks, 40, 69)) > 7
  /\ Cardinality(InBand(allTracks, 0, 39)) > 6
  /\ Cardinality(InBand(popFiltered, 70, 100)) = 7

\* the request is at the await of its recommendation call or behind it, the
\* call was the last one made
Recommended == lastCall.api = "getRecommendations"

\* C23: when the scene is classified as study/classroom, the recommendation
\* request uses the fixed targets (target_energy 0.2, max_energy 0.4,
\* target_tempo 85, max_tempo 100, max_danceability 0.5,
\* min_instrumentalness 0.5) and the fixed seed genre pair {chill, ambient},
\* regardless of the input genres, energy, tempo and mood; no key of the
\* generic energy/tempo/mood mapping is set.
C23_ClassroomTargetsFixed ==
  (Recommended /\ IsClassroomScene(analysis)) =>
    LET params == lastCall.params
    IN  /\ DOMAIN params \ {"seed_artists"} =
             {"limit", "seed_genres", "target_energy", "max_energy",
              "target_tempo", "max_tempo", "target_valence",
              "target_danceability", "max_danceability",
              "target_instrumentalness", "min_instrumentalness"}
        /\ params["target_energy"] = 2
        /\ params["max_energy"] = 4
        /\ params["target_tempo"] = 85
        /\ params["max_tempo"] = 100
        /\ params["max_danceability"] = 5
        /\ params["min_instrumentalness"] = 5
        /\ Len(params["seed_genres"]) = 2
        /\ {params["seed_genres"][i] : i \in 1..2}
             = {<<"chill">>, <<"ambient">>}

\* the recommendation request of a classroom scene whose analysis names jazz,
\* high energy, a fast tempo and a happy mood
C23_Witness ==
  /\ Recommended
  /\ IsClassroomScene(analysis)
  /\ analysis.genres = << <<"jazz">> >>
  /\ analysis.energy = "high"
  /\ analysis.tempo = "fast"
  /\ analysis.mood = <<"happy">>
  /\ lastCall.out = "ok"

\* the params hold min_X <= target_X <= max_X for the feature X, for the
\* bounds that they hold
Consistent(params, X) ==
  /\ ("min_" \o X \in DOMAIN params /\ "target_" \o X \in DOMAIN params)
       => params["min_" \o X] <= params["target_" \o X]
  /\ ("max_" \o X \in DOMAIN params /\ "target_" \o X \in DOMAIN params)
       => params["target_" \o X] <= params["max_" \o X]

\* C28: for every combination of energy, tempo and mood (and for the
\* classroom override), the recommendation parameters are mutually
\* consistent: for each audio feature, any emitted min_X is <= target_X and
\* target_X is <= any emitted max_X.
C28_ParamsConsistent ==
  Recommended =>
    \A X \in {"energy", "tempo", "valence", "danceability",
               "instrumentalness"} : Consistent(lastCall.params, X)

\* the landmark directives of the request: the quoted anthem phrases and the
\* three searches that combine the school name with "fight song", "anthem"
\* and "song", which open searchQueries when a school is detected
LandmarkDirectives ==
  IF DetectedSchool(analysis) # <<>> /\ Len(SchoolSearchTerms(analysis)) > 0
    THEN {searchQueries[i] :
            i \in 1..Min(Len(searchQueries),
                         Len(SchoolSearchTerms(analysis)) + 3)}
    ELSE {}

\* C24: when a landmark is matched (also together with a study scene), every
\* landmark directive is executed before every non-landmark search
\* directive, while the scene category still determines the recommendation
\* targets.
C24_LandmarkDirectivesFirst ==
  /\ \A k \in 1..qi :
       orderedQueries[k] \notin LandmarkDirectives
         => LandmarkDirectives \subseteq {orderedQueries[j] : j \in 1..(k - 1)}
  /\ (Recommended /\ LandmarkDirectives # {} /\ IsClassroomScene(analysis))
       => /\ lastCall.params["target_energy"] = 2
          /\ lastCall.params["max_energy"] = 4

\* C25: a login request with force=true (or reauth=true) clears the existing
\* spotify_access_token and spotify_refresh_token cookies in its response,
\* in addition to setting the new state cookie.
C25_ForcedLoginClearsTokens ==
  (oauth.pc = "login" /\ oauth.location = "authorize" /\ oauth.query.force)
    => /\ {"spotify_auth_state", "spotify_access_token",
            "spotify_refresh_token"} \subseteq DOMAIN oauth.setCookie
       /\ oauth.setCookie["spotify_auth_state"] # 0
       /\ oauth.setCookie["spotify_access_token"] = 0
       /\ oauth.setCookie["spotify_refresh_token"] = 0

\* the last request was a callback whose state was validated: no error
\* parameter, and a state equal to the cookie that came with the request
CallbackValidated ==
  /\ oauth.pc = "callback"
  /\ ~oauth.query.error
  /\ oauth.query.state \in 1..2
  /\ oauth.query.state = oauth.stored

\* C26: after the callback has validated the state successfully, its
\* response clears the spotify_auth_state cookie on every path, including
\* the path where the token exchange succeeds and the token cookies are set.
C26_StateClearedAfterValidation ==
  CallbackValidated =>
    /\ "spotify_auth_state" \in DOMAIN oauth.setCookie
    /\ oauth.setCookie["spotify_auth_state"] = 0

\* the token cookies are set only by a response whose request exchanged the
\* code, and the code is exchanged only for a validated state and a code
ExchangeOnlyWhenValid ==
  oauth.pc = "callback" =>
    /\ "spotify_access_token" \in DOMAIN oauth.setCookie => oauth.exchanged
    /\ oauth.exchanged => (CallbackValidated /\ oauth.query.code = 1)

\* C30 (as stated): the callback exchanges the authorization code for tokens
\* (and sets token cookies) only when the state query parameter is a string
\* equal to the stored spotify_auth_state cookie and a code is present; a
\* missing or mismatched state or missing code yields a 400 response with
\* no token exchange.
C30_ExchangeOnlyWhenValidElse400 ==
  /\ ExchangeOnlyWhenValid
  /\ (/\ oauth.pc = "callback"
      /\ \/ oauth.query.state \notin 1..2
         \/ oauth.query.state # oauth.stored
         \/ oauth.query.code # 1)
       => (oauth.status = 400 /\ ~oauth.exchanged)

\* C30 (amended): as stated, with the 400 response only for a request without
\* an error parameter; a request that carries an error parameter is
\* redirected to /?error=..., also without a token exchange.
C30_ExchangeOnlyWhenValidElse400UnlessError ==
  /\ ExchangeOnlyWhenValid
  /\ (/\ oauth.pc = "callback"
      /\ \/ oauth.query.state \notin 1..2
         \/ oauth.query.state # oauth.stored
         \/ oauth.query.code # 1)
       => /\ ~oauth.exchanged
          /\ ~oauth.query.error => oauth.status = 400
          /\ oauth.query.error
               => (oauth.status = 302 /\ oauth.location = "/?error")

\* a callback with the state of the cookie and a code has exchanged the code
\* and set the token cookies
C30_Witness ==
  /\ oauth.pc = "callback"
  /\ oauth.exchanged
  /\ oauth.location = "/upload"
  /\ oauth.cookies.spotify_access_token = 2
  /\ oauth.query.state = oauth.stored

\* C29: on the playlist page, whenever no preview fetch is in progress, the
\* displayed track list is the list most recently fetched for the currently
\* selected popularity filter (tracks equals tracksCache[popularityFilter]),
\* after any sequence of filter switches, refreshes and failed or empty
\* fetches; hence 'Add to Spotify' sends tracks of the selected filter.
C29_TracksOfSelectedFilter ==
  (page.pc = "page" /\ ~page.isLoading) =>
    /\ page.tracks = page.tracksCache[page.popularityFilter]
    /\ page.tracks # <<>> => page.tracks[1] = page.popularityFilter

\* C27: at every point of aggregation (after each inserted recommendation,
\* search or fallback result) the pool holds only tracks with a non-empty
\* id, no id twice, the seen-id set equals the set of pool ids, and for
\* every non-empty primary-artist name the artist count equals the number of
\* pool tracks with that primary artist and is at most 3.
C27_PoolInvariant ==
  pc # "done" =>
    /\ \A i \in 1..Len(allTracks) : allTracks[i].id # 0
    /\ \A i, j \in 1..Len(allTracks) :
         allTracks[i].id = allTracks[j].id => i = j
    /\ seenTrackIds = {allTracks[i].id : i \in 1..Len(allTracks)}
    /\ \A name \in (DOMAIN artistCounts
                    \cup {PrimaryArtist(allTracks[i]) :
                            i \in 1..Len(allTracks)}) \ {<<>>} :
         /\ Count(artistCounts, name) =
              Cardinality({i \in 1..Len(allTracks) :
                             PrimaryArtist(allTracks[i]) = name})
         /\ Count(artistCounts, name) <= 3

\* a pool after recommendation, search and fallback results that grew beyond
\* the recommended tracks, with an artist at the cap, from a catalog whose
\* answers hold an item without id
C27_Witness ==
  /\ pc = "fallback"
  /\ fi > 0
  /\ catalog.nullIds
  /\ \E name \in DOMAIN artistCounts : artistCounts[name] = 3
  /\ Len(allTracks) > Len(RecommendationTracks(catalog))

====
